---- MODULE Spec2Model ----
(***************************************************************************)
(* Streaming response pipeline of the neuroapi client:                     *)
(*   EventEmitter                      (core/events)                       *)
(*   SSEParser, StreamProcessor        (core/streaming)                    *)
(*   ChatCompletionStreamingRunner     (resources/chat/streaming)          *)
(*   CompletionStreamingRunner         (resources/completions/streaming)   *)
(*                                                                         *)
(* Spec        : one runner (chat or completion variant) consuming the     *)
(*               frame sequence of its StreamProcessor, with abort(),      *)
(*               done() and finalContent()/finalText() callers.            *)
(* SpecParser  : one SSEParser fed a text in consecutive chunks, next to   *)
(*               a second parser fed the same text whole.                  *)
(***************************************************************************)
EXTENDS Integers, Sequences, FiniteSets, TLC

VARIABLES
  variant,            \* "chat" | "completion": which runner class was constructed
  hasBody,            \* response.body is not null
  pc,                 \* position of the runner's processStream() task
  seen,               \* frames the for-await loop has pulled so far
  aborted,            \* abortController.signal.aborted
  contentSnapshot,    \* contentSnapshot / textSnapshot
  isComplete,         \* isComplete
  finalValue,         \* _finalContent / _finalText (NULL until assigned)
  toolCallsSnapshot,  \* toolCallsSnapshot: index -> accumulated tool call
  finalToolCalls,     \* _finalToolCalls (<<NULL>> until assigned)
  events,             \* EventEmitter.events: event name -> ordered handler set
  log,                \* every emit() call of the runner, in order
  calls,              \* the promises returned by done()/finalContent()/finalText()
  abortCalls,         \* number of abort() calls made so far
  assigns,            \* number of assignments to _finalContent / _finalText
  text,               \* SSE text still to be delivered to the parser
  buffer,             \* SSEParser.buffer of the chunk-fed parser
  frames,             \* frames returned so far by the chunk-fed parser
  fed,                \* text delivered to the parser since its last reset
  procPc,             \* position of the StreamProcessor.processStream generator
  pending,            \* frames of the current chunk the generator has not looked at yet
  yielded,            \* frames the generator has yielded to its consumer
  reads,              \* number of reader.read() calls made
  locked,             \* the reader obtained from response.body holds its lock
  readsAtAbort,       \* value of reads when the cancellation token was signalled
  iterBorn,           \* length of log when [Symbol.asyncIterator]() was called
  chunkIndex,         \* chunkIndex of the iterator
  results,            \* the settled next() calls of the iterator, in order
  emitter,            \* a stand-alone EventEmitter and the handlers it was given
  peer,               \* a second runner, built on another response
  retry,              \* one withRetry(fn, options) call
  request             \* one non-streaming request of the client

vars == <<variant, hasBody, pc, seen, aborted, contentSnapshot, isComplete,
          finalValue, toolCallsSnapshot, finalToolCalls, events, log, calls,
          abortCalls, assigns, text, buffer, frames, fed,
          procPc, pending, yielded, reads, locked, readsAtAbort,
          iterBorn, chunkIndex, results, emitter, peer, retry, request>>

runnerVars == <<variant, hasBody, pc, seen, aborted, contentSnapshot, isComplete,
                finalValue, toolCallsSnapshot, finalToolCalls, events, log, calls,
                abortCalls, assigns>>

processorVars == <<procPc, pending, yielded, reads, locked, readsAtAbort>>

\* the state of the SSEParser and of the StreamProcessor that owns it
parserVars == <<text, buffer, frames, fed, procPc, pending, yielded, reads, locked,
               readsAtAbort, iterBorn, chunkIndex, results, emitter,
               peer, retry, request>>

auxVars == <<peer, retry, request>>

iteratorVars == <<iterBorn, chunkIndex, results>>

-----------------------------------------------------------------------------
(* Bounds *)

MaxFrames == 3      \* frames pulled by one runner
MaxAborts == 1      \* abort() calls on one runner
MaxCalls == 1       \* done()/finalContent()/finalText() calls on one runner
MaxLines == 4       \* lines of SSE text fed to one parser

NULL == "<null>"
NoIndex == -1       \* a tool-call delta without `index`

-----------------------------------------------------------------------------
(* Wire payloads *)

ChatChunk(content, finish, tcs) ==
  [hasChoices |-> TRUE,
   choices |-> <<[delta |-> [content |-> content, tool_calls |-> tcs],
                  finish_reason |-> finish]>>]

CompletionChunk(txt, finish) ==
  [hasChoices |-> TRUE,
   choices |-> <<[text |-> txt, finish_reason |-> finish]>>]

NoChoicesChunk == [hasChoices |-> FALSE, choices |-> <<>>]

EmptyChoicesChunk == [hasChoices |-> TRUE, choices |-> <<>>]

ToolCallDelta(i, id, name, args) ==
  [index |-> i, id |-> id, function |-> [name |-> name, arguments |-> args]]

Json(v) == [json |-> TRUE, value |-> v]

Malformed == [json |-> FALSE, value |-> NoChoicesChunk]

ChatFrames ==
  { Json(ChatChunk("Hello", NULL, <<>>)),
    Json(ChatChunk(" world", "stop", <<>>)),
    Json(ChatChunk(NULL, "stop", <<>>)),
    Json(ChatChunk("", NULL, <<ToolCallDelta(0, "call_1", "f", "{")>>)),
    Json(NoChoicesChunk),
    Malformed }

CompletionFrames ==
  { Json(CompletionChunk("Hello", NULL)),
    Json(CompletionChunk(" world", "stop")),
    Json(CompletionChunk("", "stop")),
    Json(EmptyChoicesChunk),
    Json(NoChoicesChunk),
    Malformed }

EventNames ==
  {"chunk", "content.delta", "content.done", "text.delta", "text.done",
   "tool_calls.function.arguments.delta", "tool_calls.function.arguments.done",
   "error", "end", "abort"}

\* JSON.parse(event.data): throws SyntaxError on text that is not JSON
JSONParse(data) ==
  IF data.json THEN [ok |-> TRUE, value |-> data.value]
  ELSE [ok |-> FALSE, value |-> NoChoicesChunk]

\* mutant: the empty string counts as present
TruthyNonNull(s) == s # NULL

Truthy(s) == s # NULL /\ s # ""

APIUserAbortError == "APIUserAbortError"

\* new Error("Response body is null")
BodyIsNull == "Response body is null"

-----------------------------------------------------------------------------
(* The runner as one record, so that a handler can run inside an emission *)

Self ==
  [variant |-> variant, hasBody |-> hasBody, pc |-> pc, seen |-> seen,
   aborted |-> aborted, contentSnapshot |-> contentSnapshot,
   isComplete |-> isComplete, finalValue |-> finalValue,
   toolCallsSnapshot |-> toolCallsSnapshot, finalToolCalls |-> finalToolCalls,
   events |-> events, log |-> log, calls |-> calls, abortCalls |-> abortCalls,
   assigns |-> assigns, trigger |-> "none", throws |-> "none", caught |-> 0]

Commit(r) ==
  /\ variant' = r.variant
  /\ hasBody' = r.hasBody
  /\ pc' = r.pc
  /\ seen' = r.seen
  /\ aborted' = r.aborted
  /\ contentSnapshot' = r.contentSnapshot
  /\ isComplete' = r.isComplete
  /\ finalValue' = r.finalValue
  /\ toolCallsSnapshot' = r.toolCallsSnapshot
  /\ finalToolCalls' = r.finalToolCalls
  /\ events' = r.events
  /\ log' = r.log
  /\ calls' = r.calls
  /\ abortCalls' = r.abortCalls
  /\ assigns' = r.assigns

\* the lifecycle state of section 4.4, read off the runner's fields
RunnerState ==
  IF isComplete THEN "complete"
  ELSE IF pc = "caughtError" THEN "errored"
  ELSE IF aborted THEN "aborted"
  ELSE "streaming"

-----------------------------------------------------------------------------
(* EventEmitter *)

Range(s) == { s[i] : i \in 1..Len(s) }

\* the handlers the application registered on the runner
UserHandler(name) == [call |-> 0, ev |-> name, fn |-> "user"]

\* the closure once() registers in place of the handler it is given
OnceWrapper(i, name) == [call |-> i, ev |-> name, fn |-> "onceWrapper"]

\* onEnd / onError / onAbort of the i-th done() call
DoneHandler(i, name) == [call |-> i, ev |-> name, fn |-> "handler"]

On(r, name, h) ==
  IF h \in Range(r.events[name]) THEN r
  ELSE [r EXCEPT !.events[name] = Append(@, h)]

Off(r, name, h) ==
  [r EXCEPT !.events[name] = SelectSeq(@, LAMBDA x : x # h)]

Once(r, name, i) == On(r, name, OnceWrapper(i, name))

\* resolve() of the promise built by the i-th call; a settled promise stays as it is
ResolveDone(r, i) ==
  IF r.calls[i].done # "pending" THEN r
  ELSE IF r.calls[i].api = "done"
    THEN [r EXCEPT !.calls[i].done = "resolved", !.calls[i].st = "resolved"]
    ELSE [r EXCEPT !.calls[i].done = "resolved"]

\* reject(err) of the promise built by the i-th call
RejectDone(r, i, err) ==
  IF r.calls[i].done # "pending" THEN r
  ELSE [r EXCEPT !.calls[i].done = "rejected", !.calls[i].st = "rejected",
                 !.calls[i].val = err]

\* cleanup() of done(): off() is given the handlers, not the wrappers once() registered
Cleanup(r, i) ==
  Off(Off(Off(r, "end", DoneHandler(i, "end")),
          "error", DoneHandler(i, "error")),
      "abort", DoneHandler(i, "abort"))

RECURSIVE EmitLoop(_, _, _, _)
RECURSIVE AbortMethod(_)

\* mutant: the catch of emit() reports the handler's exception as an `error` event
HandlerThrewReported(r) ==
  [r EXCEPT !.caught = @ + 1,
            !.log = Append(@, [name |-> "error", data |-> "HandlerError",
                               frame |-> Len(r.seen), aborted |-> r.aborted,
                               complete |-> r.isComplete])]

\* the catch of emit(): console.error, and on to the next handler
HandlerThrew(r) == [r EXCEPT !.caught = @ + 1]

\* one handler call of emit(), inside its try/catch; the application's handler
\* of the event named r.throws throws, the one of r.trigger calls abort()
Invoke(r, h, name, data) ==
  IF h.fn = "user"
    THEN IF r.throws = name THEN HandlerThrew(r)
         ELSE IF r.trigger = name /\ r.abortCalls < MaxAborts THEN AbortMethod(r)
         ELSE r
    ELSE LET r1 == Cleanup(Off(r, name, h), h.call)
         IN CASE name = "end" -> ResolveDone(r1, h.call)
              [] name = "error" -> RejectDone(r1, h.call, data)
              [] name = "abort" -> RejectDone(r1, h.call, APIUserAbortError)
              [] OTHER -> r1

\* for (const handler of handlers): the live Set, in insertion order
EmitLoop(r, name, data, visited) ==
  LET rest == SelectSeq(r.events[name], LAMBDA h : h \notin visited)
  IN IF rest = <<>> THEN r
     ELSE EmitLoop(Invoke(r, Head(rest), name, data), name, data,
                   visited \cup {Head(rest)})

Emit(r, name, data) ==
  EmitLoop([r EXCEPT !.log = Append(@, [name |-> name, data |-> data,
                                        frame |-> Len(r.seen),
                                        aborted |-> r.aborted,
                                        complete |-> r.isComplete])],
           name, data, {})

\* mutant: a failure of the inner try ends the consumption loop
PerFrameCatchFatal(r, err) == [Emit(r, "error", err) EXCEPT !.pc = "caughtError"]

\* the catch of the inner try: report the failure and go on with the next frame
PerFrameCatch(r, err) == Emit(r, "error", err)

\* mutant: the fragment replaces the snapshot instead of being appended
AppendSnapshotOverwrite(snapshot, fragment) == fragment

\* string += fragment
AppendSnapshot(snapshot, fragment) == snapshot \o fragment

\* mutant: abort() signals the token and emits nothing
AbortMethodSilent(r) == [r EXCEPT !.aborted = TRUE, !.abortCalls = @ + 1]

\* abort()
AbortMethod(r) ==
  Emit([r EXCEPT !.aborted = TRUE, !.abortCalls = @ + 1], "abort", NULL)

-----------------------------------------------------------------------------
(* ChatCompletionStreamingRunner *)

NoFinalToolCalls == [set |-> FALSE, value |-> <<>>]

\* Object.values(toolCallsSnapshot): integer keys come in ascending order.
\* The array holds the snapshot objects themselves, not copies; an object is
\* named by its index, since toolCallsSnapshot[index] is assigned only once.
RECURSIVE ObjectValuesFrom(_, _)
ObjectValuesFrom(snap, i) ==
  IF \A k \in DOMAIN snap : k < i THEN <<>>
  ELSE IF i \in DOMAIN snap THEN <<i>> \o ObjectValuesFrom(snap, i + 1)
  ELSE ObjectValuesFrom(snap, i + 1)

\* what an array of snapshot objects reads as, given the objects' current fields
Deref(refs, snap) == [j \in 1..Len(refs) |-> snap[refs[j]]]

\* what an object { ...snapshot } made at `index` reads as later: id and type
\* were copied into it, `function` is still the snapshot's own object
SpreadCopy(copy, index, snap) == [copy EXCEPT !.function = snap[index].function]

ObjectValues(snap) == ObjectValuesFrom(snap, 0)

\* mutant: an arguments fragment replaces the accumulated arguments
FoldToolCallReplace(r, d) ==
  IF d.index = NoIndex THEN r
  ELSE LET index == d.index
           init == IF index \in DOMAIN r.toolCallsSnapshot
                     THEN r.toolCallsSnapshot[index]
                     ELSE [id |-> "", type |-> "function",
                           function |-> [name |-> "", arguments |-> ""]]
           withId == IF Truthy(d.id) THEN [init EXCEPT !.id = d.id] ELSE init
           withName == IF Truthy(d.function.name)
                         THEN [withId EXCEPT !.function.name = d.function.name]
                         ELSE withId
           snapshot == IF Truthy(d.function.arguments)
                         THEN [withName EXCEPT !.function.arguments =
                                    d.function.arguments]
                         ELSE withName
           r1 == [r EXCEPT !.toolCallsSnapshot =
                    [k \in (DOMAIN @) \cup {index} |->
                       IF k = index THEN snapshot ELSE @[k]]]
       IN Emit(r1, "tool_calls.function.arguments.delta",
               [index |-> index, toolCall |-> d, snapshot |-> snapshot])

\* mutant: the id and the name of a delta are stored even when empty or absent
FoldToolCallOverwrites(r, d) ==
  IF d.index = NoIndex THEN r
  ELSE LET index == d.index
           init == IF index \in DOMAIN r.toolCallsSnapshot
                     THEN r.toolCallsSnapshot[index]
                     ELSE [id |-> "", type |-> "function",
                           function |-> [name |-> "", arguments |-> ""]]
           withName == [init EXCEPT !.id = d.id, !.function.name = d.function.name]
           snapshot == IF Truthy(d.function.arguments)
                         THEN [withName EXCEPT !.function.arguments =
                                    AppendSnapshot(@, d.function.arguments)]
                         ELSE withName
           r1 == [r EXCEPT !.toolCallsSnapshot =
                    [k \in (DOMAIN @) \cup {index} |->
                       IF k = index THEN snapshot ELSE @[k]]]
       IN Emit(r1, "tool_calls.function.arguments.delta",
               [index |-> index, toolCall |-> d, snapshot |-> snapshot])

\* one entry of handleToolCallsDelta's loop
FoldToolCall(r, d) ==
  IF d.index = NoIndex THEN r
  ELSE LET index == d.index
           init == IF index \in DOMAIN r.toolCallsSnapshot
                     THEN r.toolCallsSnapshot[index]
                     ELSE [id |-> "", type |-> "function",
                           function |-> [name |-> "", arguments |-> ""]]
           withId == IF Truthy(d.id) THEN [init EXCEPT !.id = d.id] ELSE init
           withName == IF Truthy(d.function.name)
                         THEN [withId EXCEPT !.function.name = d.function.name]
                         ELSE withId
           snapshot == IF Truthy(d.function.arguments)
                         THEN [withName EXCEPT !.function.arguments =
                                    AppendSnapshot(@, d.function.arguments)]
                         ELSE withName
           r1 == [r EXCEPT !.toolCallsSnapshot =
                    [k \in (DOMAIN @) \cup {index} |->
                       IF k = index THEN snapshot ELSE @[k]]]
       IN Emit(r1, "tool_calls.function.arguments.delta",
               [index |-> index, toolCall |-> d, snapshot |-> snapshot])

RECURSIVE HandleToolCallsDelta(_, _)
HandleToolCallsDelta(r, deltas) ==
  IF deltas = <<>> THEN r
  ELSE HandleToolCallsDelta(FoldToolCall(r, Head(deltas)), Tail(deltas))

\* for (let i = 0; i < Object.keys(toolCallsSnapshot).length; i++) emit done
RECURSIVE ToolCallsDoneLoop(_, _)
ToolCallsDoneLoop(r, i) ==
  IF i >= Cardinality(DOMAIN r.toolCallsSnapshot) THEN r
  ELSE IF i \in DOMAIN r.toolCallsSnapshot
    THEN ToolCallsDoneLoop(
           Emit(r, "tool_calls.function.arguments.done",
                [index |-> i, toolCall |-> r.toolCallsSnapshot[i]]), i + 1)
    ELSE ToolCallsDoneLoop(r, i + 1)

\* mutant: the tool-call done events come before content.done
ChatFinishToolDoneFirst(r) ==
  LET r1 == [r EXCEPT !.finalValue = r.contentSnapshot,
                      !.finalToolCalls = [set |-> TRUE,
                                          value |-> ObjectValues(r.toolCallsSnapshot)],
                      !.isComplete = TRUE,
                      !.assigns = @ + 1]
      r2 == ToolCallsDoneLoop(r1, 0)
  IN IF Truthy(r2.contentSnapshot)
       THEN Emit(r2, "content.done", [content |-> r2.contentSnapshot])
       ELSE r2

\* the finish_reason branch of the chat runner
ChatFinish(r) ==
  LET r1 == [r EXCEPT !.finalValue = r.contentSnapshot,
                      !.finalToolCalls = [set |-> TRUE,
                                          value |-> ObjectValues(r.toolCallsSnapshot)],
                      !.isComplete = TRUE,
                      !.assigns = @ + 1]
      r2 == IF Truthy(r1.contentSnapshot)
              THEN Emit(r1, "content.done", [content |-> r1.contentSnapshot])
              ELSE r1
  IN ToolCallsDoneLoop(r2, 0)

\* the inner try block of the chat runner's loop, with its catch
ChatProcessChunk(r, data) ==
  LET p == JSONParse(data) IN
  IF ~p.ok THEN PerFrameCatch(r, "SyntaxError")
  ELSE
    LET chunk == p.value
        r1 == Emit(r, "chunk", chunk)
    IN IF ~chunk.hasChoices THEN PerFrameCatch(r1, "TypeError")
       ELSE IF chunk.choices = <<>> THEN r1
       ELSE
         LET delta == chunk.choices[1].delta
             r2 == IF Truthy(delta.content)
                     THEN LET r1a == [r1 EXCEPT !.contentSnapshot =
                                                 AppendSnapshot(@, delta.content)]
                          IN Emit(r1a, "content.delta",
                                  [delta |-> delta.content,
                                   snapshot |-> r1a.contentSnapshot])
                     ELSE r1
             r3 == HandleToolCallsDelta(r2, delta.tool_calls)
         IN IF Truthy(chunk.choices[1].finish_reason) THEN ChatFinish(r3) ELSE r3

\* what follows the chat runner's loop when the frame sequence is exhausted
ChatExhausted(r) ==
  LET r1 == IF ~r.isComplete
              THEN Emit([r EXCEPT !.finalValue = r.contentSnapshot,
                                  !.isComplete = TRUE,
                                  !.assigns = @ + 1],
                        "content.done", [content |-> r.contentSnapshot])
              ELSE r
  IN Emit(r1, "end", NULL)

-----------------------------------------------------------------------------
(* CompletionStreamingRunner *)

CompletionFinish(r) ==
  Emit([r EXCEPT !.finalValue = r.contentSnapshot,
                 !.isComplete = TRUE,
                 !.assigns = @ + 1],
       "text.done", [text |-> r.contentSnapshot])

CompletionProcessChunk(r, data) ==
  LET p == JSONParse(data) IN
  IF ~p.ok THEN PerFrameCatch(r, "SyntaxError")
  ELSE
    LET chunk == p.value
        r1 == Emit(r, "chunk", chunk)
    IN IF ~chunk.hasChoices THEN PerFrameCatch(r1, "TypeError")
       ELSE IF chunk.choices = <<>> THEN r1
       ELSE
         LET choice == chunk.choices[1]
             r2 == IF Truthy(choice.text)
                     THEN LET r1a == [r1 EXCEPT !.contentSnapshot =
                                                 AppendSnapshot(@, choice.text)]
                          IN Emit(r1a, "text.delta",
                                  [delta |-> choice.text,
                                   snapshot |-> r1a.contentSnapshot])
                     ELSE r1
         IN IF Truthy(choice.finish_reason) THEN CompletionFinish(r2) ELSE r2

CompletionExhausted(r) ==
  LET r1 == IF ~r.isComplete THEN CompletionFinish(r) ELSE r
  IN Emit(r1, "end", NULL)

-----------------------------------------------------------------------------
(* processStream() of both runners: the for-await loop and the outer catch *)

\* events whose application handler may call abort() while the event is emitted
Triggers == {"none"} \cup (EventNames \ {"abort"})

ProcessChunk(r, data) ==
  IF r.variant = "chat" THEN ChatProcessChunk(r, data)
  ELSE CompletionProcessChunk(r, data)

\* mutant: the loop body without its abort check
LoopBodyNoAbortCheck(r, data) == ProcessChunk(r, data)

\* the loop body for one pulled frame: the abort check, then the inner try
LoopBody(r, data) ==
  IF r.aborted THEN [Emit(r, "abort", NULL) EXCEPT !.pc = "abortReturn"]
  ELSE ProcessChunk(r, data)

Exhausted(r) ==
  [(IF r.variant = "chat" THEN ChatExhausted(r) ELSE CompletionExhausted(r))
     EXCEPT !.pc = "ended"]

\* mutant: the outer catch reports every failure as `error`
OuterCatchAlwaysError(r, err) == [Emit(r, "error", err) EXCEPT !.pc = "caughtError"]

\* the outer catch: the generator threw
OuterCatch(r, err) ==
  IF r.aborted THEN [Emit(r, "abort", NULL) EXCEPT !.pc = "caughtAbort"]
  ELSE [Emit(r, "error", err) EXCEPT !.pc = "caughtError"]

\* mutant: done() does not subscribe to `error`
DoneMethodNoErrorListener(r, api, born) ==
  LET i == Len(r.calls) + 1
      p == [api |-> api, done |-> "pending", st |-> "pending", val |-> NULL,
            born |-> born, bornLog |-> Len(r.log), bornAssigns |-> r.assigns]
  IN IF r.isComplete
       THEN [r EXCEPT !.calls = Append(@, [p EXCEPT !.done = "resolved",
                          !.st = IF api = "done" THEN "resolved" ELSE "pending"])]
       ELSE Once(Once([r EXCEPT !.calls = Append(@, p)], "end", i), "abort", i)

\* done(): the promise executor
DoneMethod(r, api, born) ==
  LET i == Len(r.calls) + 1
      p == [api |-> api, done |-> "pending", st |-> "pending", val |-> NULL,
            born |-> born, bornLog |-> Len(r.log), bornAssigns |-> r.assigns]
  IN IF r.isComplete
       THEN [r EXCEPT !.calls = Append(@, [p EXCEPT !.done = "resolved",
                          !.st = IF api = "done" THEN "resolved" ELSE "pending"])]
       ELSE Once(Once(Once([r EXCEPT !.calls = Append(@, p)], "end", i),
                      "error", i), "abort", i)

\* mutant: finalContent() / finalText() returns the running snapshot at once
FinalMethodPartial(r, born) ==
  [r EXCEPT !.calls = Append(@,
     [api |-> "final", done |-> "none", st |-> "resolved",
      val |-> r.contentSnapshot, born |-> born, bornLog |-> Len(r.log),
      bornAssigns |-> r.assigns])]

\* finalContent() / finalText() up to its await
FinalMethod(r, born) ==
  IF r.finalValue # NULL
    THEN [r EXCEPT !.calls = Append(@,
            [api |-> "final", done |-> "none", st |-> "resolved",
             val |-> r.finalValue, born |-> born, bornLog |-> Len(r.log),
             bornAssigns |-> r.assigns])]
    ELSE DoneMethod(r, "final", born)

\* _finalContent || ""
OrEmpty(v) == IF v = NULL THEN "" ELSE v

\* the for-await loop pulls a frame and runs its body on it
Frame ==
  /\ hasBody /\ pc = "streaming" /\ Len(seen) < MaxFrames
  /\ \E data \in (IF variant = "chat" THEN ChatFrames ELSE CompletionFrames),
        t \in Triggers :
       Commit(LoopBody([Self EXCEPT !.seen = Append(@, data), !.trigger = t], data))
  /\ UNCHANGED parserVars

\* the frame sequence is exhausted: the byte stream closed, or a [DONE] frame came
EndOfSequence ==
  /\ hasBody /\ pc = "streaming"
  /\ \E t \in Triggers : Commit(Exhausted([Self EXCEPT !.trigger = t]))
  /\ UNCHANGED parserVars

\* reader.read() rejects
ReadFails ==
  /\ hasBody /\ pc = "streaming"
  /\ \E t \in Triggers : Commit(OuterCatch([Self EXCEPT !.trigger = t], "ReadError"))
  /\ UNCHANGED parserVars

\* response.body is null: the generator throws on the first pull
BodyUnavailable ==
  /\ ~hasBody /\ pc = "streaming"
  /\ \E t \in Triggers :
       Commit(OuterCatch([Self EXCEPT !.trigger = t], BodyIsNull))
  /\ UNCHANGED parserVars

\* abort() called by the application between two steps of the loop
Abort ==
  /\ abortCalls < MaxAborts
  /\ Commit(AbortMethod(Self))
  /\ UNCHANGED parserVars

CallDone ==
  /\ Len(calls) < MaxCalls
  /\ Commit(DoneMethod(Self, "done", RunnerState))
  /\ UNCHANGED parserVars

CallFinal ==
  /\ Len(calls) < MaxCalls
  /\ Commit(FinalMethod(Self, RunnerState))
  /\ UNCHANGED parserVars

\* finalContent() / finalText() after its await: return this._finalContent || ""
ResumeFinal ==
  /\ \E i \in 1..Len(calls) :
       /\ calls[i].api = "final" /\ calls[i].done = "resolved" /\ calls[i].st = "pending"
       /\ calls' = [calls EXCEPT ![i].st = "resolved",
                                 ![i].val = OrEmpty(finalValue)]
  /\ UNCHANGED <<variant, hasBody, pc, seen, aborted, contentSnapshot, isComplete,
                 finalValue, toolCallsSnapshot, finalToolCalls, events, log,
                 abortCalls, assigns>>
  /\ UNCHANGED parserVars

\* finalToolCalls() up to its await
FinalToolCallsMethod(r, born) ==
  IF r.finalToolCalls.set
    THEN [r EXCEPT !.calls = Append(@,
            [api |-> "finalTools", done |-> "none", st |-> "resolved",
             val |-> Deref(r.finalToolCalls.value, r.toolCallsSnapshot),
             born |-> born, bornLog |-> Len(r.log), bornAssigns |-> r.assigns])]
    ELSE DoneMethod(r, "finalTools", born)

\* [Symbol.asyncIterator]() has not been called
IteratorIdle == iterBorn = NoIndex /\ chunkIndex = 0 /\ results = <<>>

\* no stand-alone EventEmitter has been constructed
EmitterIdle == emitter = NULL

\* no second runner, no withRetry call and no client request exist
AuxIdle == peer = NULL /\ retry = NULL /\ request = NULL

ProcessorIdle ==
  /\ procPc = "start" /\ pending = <<>> /\ yielded = <<>> /\ reads = 0
  /\ locked = FALSE /\ readsAtAbort = 0

ParserIdle ==
  /\ text = <<>> /\ buffer = <<>> /\ frames = <<>> /\ fed = <<>>
  /\ ProcessorIdle
  /\ IteratorIdle
  /\ EmitterIdle
  /\ AuxIdle

Init ==
  /\ variant \in {"chat", "completion"}
  /\ hasBody \in BOOLEAN
  /\ pc = "streaming"
  /\ seen = <<>>
  /\ aborted = FALSE
  /\ contentSnapshot = ""
  /\ isComplete = FALSE
  /\ finalValue = NULL
  /\ toolCallsSnapshot = <<>>
  /\ finalToolCalls = NoFinalToolCalls
  /\ events = [n \in EventNames |-> <<UserHandler(n)>>]
  /\ log = <<>>
  /\ calls = <<>>
  /\ abortCalls = 0
  /\ assigns = 0
  /\ ParserIdle

Next ==
  \/ Frame
  \/ EndOfSequence
  \/ ReadFails
  \/ BodyUnavailable
  \/ Abort
  \/ CallDone
  \/ CallFinal
  \/ ResumeFinal

Spec == Init /\ [][Next]_vars

-----------------------------------------------------------------------------
(* The chat runner on streams that carry tool calls *)

MaxToolFrames == 4  \* frames pulled by one runner of a tool-call stream

ToolFrames ==
  { Json(ChatChunk(NULL, NULL, <<ToolCallDelta(0, "call_0", "f", "a")>>)),
    Json(ChatChunk(NULL, NULL, <<ToolCallDelta(0, NULL, NULL, "b")>>)),
    Json(ChatChunk(NULL, NULL, <<ToolCallDelta(0, "call_0", "f", "ab")>>)),
    Json(ChatChunk(NULL, NULL, <<ToolCallDelta(1, "call_1", "g", "x")>>)),
    Json(ChatChunk(NULL, NULL, <<ToolCallDelta(0, "call_9", "", "")>>)),
    Json(ChatChunk(NULL, NULL, <<ToolCallDelta(0, NULL, "f2", NULL)>>)),
    Json(ChatChunk(NULL, NULL, <<ToolCallDelta(2, "call_2", "h", "y"),
                                 ToolCallDelta(NoIndex, NULL, NULL, "z")>>)),
    Json(ChatChunk("Hello", NULL, <<>>)),
    Json(ChatChunk(NULL, "tool_calls", <<>>)) }

ToolFrame ==
  /\ variant = "chat" /\ hasBody /\ pc = "streaming" /\ Len(seen) < MaxToolFrames
  /\ \E data \in ToolFrames :
       Commit(LoopBody([Self EXCEPT !.seen = Append(@, data)], data))
  /\ UNCHANGED parserVars

ToolStreamEnds ==
  /\ hasBody /\ pc = "streaming"
  /\ Commit(Exhausted(Self))
  /\ UNCHANGED parserVars

CallFinalToolCalls ==
  /\ Len(calls) < MaxCalls
  /\ Commit(FinalToolCallsMethod(Self, RunnerState))
  /\ UNCHANGED parserVars

\* finalToolCalls() after its await: return this._finalToolCalls || []
ResumeFinalToolCalls ==
  /\ \E i \in 1..Len(calls) :
       /\ calls[i].api = "finalTools" /\ calls[i].done = "resolved"
       /\ calls[i].st = "pending"
       /\ calls' = [calls EXCEPT
            ![i].st = "resolved",
            ![i].val = IF finalToolCalls.set
                         THEN Deref(finalToolCalls.value, toolCallsSnapshot)
                         ELSE <<>>]
  /\ UNCHANGED <<variant, hasBody, pc, seen, aborted, contentSnapshot, isComplete,
                 finalValue, toolCallsSnapshot, finalToolCalls, events, log,
                 abortCalls, assigns>>
  /\ UNCHANGED parserVars

InitTools ==
  /\ Init
  /\ variant = "chat"
  /\ hasBody

NextTools ==
  \/ ToolFrame
  \/ ToolStreamEnds
  \/ CallFinalToolCalls
  \/ ResumeFinalToolCalls

SpecTools == InitTools /\ [][NextTools]_vars

-----------------------------------------------------------------------------
(* SSEParser: text is a sequence of characters *)

NL == "\n"

Undefined == <<"undefined">>

NoRetry == [def |-> FALSE]

\* a current event that keeps an id across the reset at a blank line
StaleEvent == [data |-> Undefined, event |-> Undefined, id |-> <<"1">>,
               retry |-> NoRetry]

EmptyEvent == [data |-> Undefined, event |-> Undefined, id |-> Undefined,
               retry |-> NoRetry]

\* String.prototype.split("\n"): the pieces between newlines, the last one included
RECURSIVE SplitLines(_, _)
SplitLines(s, cur) ==
  IF s = <<>> THEN <<cur>>
  ELSE IF Head(s) = NL THEN <<cur>> \o SplitLines(Tail(s), <<>>)
  ELSE SplitLines(Tail(s), Append(cur, Head(s)))

\* String.prototype.indexOf(":"), 1-based; 0 when there is none
RECURSIVE IndexOfColon(_, _)
IndexOfColon(line, i) ==
  IF i > Len(line) THEN 0
  ELSE IF line[i] = ":" THEN i
  ELSE IndexOfColon(line, i + 1)

Whitespace == {" ", "\t", "\r"}

RECURSIVE TrimStart(_)
TrimStart(s) ==
  IF s # <<>> /\ Head(s) \in Whitespace THEN TrimStart(Tail(s)) ELSE s

RECURSIVE TrimEnd(_)
TrimEnd(s) ==
  IF s # <<>> /\ s[Len(s)] \in Whitespace THEN TrimEnd(SubSeq(s, 1, Len(s) - 1)) ELSE s

\* String.prototype.trim()
Trim(s) == TrimEnd(TrimStart(s))

Digits == <<"0", "1", "2", "3", "4", "5", "6", "7", "8", "9">>

DigitValue(c) == (CHOOSE i \in 1..10 : Digits[i] = c) - 1

\* parseInt(value, 10) of a trimmed value without sign: its leading digits, or NaN
RECURSIVE ParseDigits(_, _, _)
ParseDigits(s, acc, any) ==
  IF s # <<>> /\ Head(s) \in Range(Digits)
    THEN ParseDigits(Tail(s), acc * 10 + DigitValue(Head(s)), TRUE)
    ELSE [def |-> TRUE, nan |-> ~any, n |-> acc]

ParseInt(s) == ParseDigits(s, 0, FALSE)

\* the switch on the field name
SetField(ev, field, value) ==
  CASE field = <<"d", "a", "t", "a">> -> [ev EXCEPT !.data = value]
    [] field = <<"e", "v", "e", "n", "t">> -> [ev EXCEPT !.event = value]
    [] field = <<"i", "d">> -> [ev EXCEPT !.id = value]
    [] field = <<"r", "e", "t", "r", "y">> -> [ev EXCEPT !.retry = ParseInt(value)]
    [] OTHER -> ev

\* the for loop of parse() over the complete lines
RECURSIVE ParseLines(_, _, _)
ParseLines(lines, currentEvent, out) ==
  IF lines = <<>> THEN out
  ELSE LET line == Head(lines)
           colonIndex == IndexOfColon(line, 1)
       IN IF line = <<>>
            THEN ParseLines(Tail(lines), EmptyEvent,
                            IF currentEvent.data # Undefined
                              THEN Append(out, currentEvent) ELSE out)
          ELSE IF colonIndex = 0 THEN ParseLines(Tail(lines), currentEvent, out)
          ELSE ParseLines(Tail(lines),
                          SetField(currentEvent,
                                   Trim(SubSeq(line, 1, colonIndex - 1)),
                                   Trim(SubSeq(line, colonIndex + 1, Len(line)))),
                          out)

\* a parse() that retains the whole text instead of the last, unfinished line
ParseKeepsAll(buf, chunk) ==
  LET lines == SplitLines(buf \o chunk, <<>>)
  IN [buffer |-> buf \o chunk,
      events |-> ParseLines(SubSeq(lines, 1, Len(lines) - 1), EmptyEvent, <<>>)]

\* parse(chunk) on a parser whose buffer is buf: the new buffer and the frames returned
Parse(buf, chunk) ==
  LET lines == SplitLines(buf \o chunk, <<>>)
  IN [buffer |-> lines[Len(lines)],
      events |-> ParseLines(SubSeq(lines, 1, Len(lines) - 1), EmptyEvent, <<>>)]

\* the lines an SSE text is made of here, each followed by a newline
Chars(str) ==
  CASE str = "data:x" -> <<"d", "a", "t", "a", ":", "x">>
    [] str = "data: y" -> <<"d", "a", "t", "a", ":", " ", "y">>
    [] str = "id:1" -> <<"i", "d", ":", "1">>
    [] str = "retry:1" -> <<"r", "e", "t", "r", "y", ":", "1">>
    [] str = "x" -> <<"x">>
    [] str = "data: [DONE]" ->
         <<"d", "a", "t", "a", ":", " ", "[", "D", "O", "N", "E", "]">>
    [] OTHER -> <<>>

LineSet == {"data:x", "data: y", "id:1", "retry:1", "x", ""}

RECURSIVE Texts(_)
Texts(n) ==
  IF n = 0 THEN {<<>>}
  ELSE LET shorter == Texts(n - 1)
       IN shorter \cup { t \o Chars(l) \o <<NL>> : t \in shorter, l \in LineSet }

\* a chunk of the byte stream reaches parse()
Feed ==
  /\ text # <<>>
  /\ \E n \in 1..Len(text) :
       LET chunk == SubSeq(text, 1, n)
           res == Parse(buffer, chunk)
       IN /\ buffer' = res.buffer
          /\ frames' = frames \o res.events
          /\ fed' = fed \o chunk
          /\ text' = SubSeq(text, n + 1, Len(text))
  /\ UNCHANGED processorVars
  /\ UNCHANGED <<iteratorVars, emitter, auxVars>>
  /\ UNCHANGED runnerVars

\* reset(): the parser starts over; frames and fed are counted from the last reset
ParserReset ==
  /\ buffer # <<>>
  /\ buffer' = <<>>
  /\ frames' = <<>>
  /\ fed' = <<>>
  /\ UNCHANGED text
  /\ UNCHANGED processorVars
  /\ UNCHANGED <<iteratorVars, emitter, auxVars>>
  /\ UNCHANGED runnerVars

RunnerIdle ==
  /\ variant = "chat"
  /\ pc = "streaming"
  /\ seen = <<>>
  /\ aborted = FALSE
  /\ contentSnapshot = ""
  /\ isComplete = FALSE
  /\ finalValue = NULL
  /\ toolCallsSnapshot = <<>>
  /\ finalToolCalls = NoFinalToolCalls
  /\ events = [n \in EventNames |-> <<UserHandler(n)>>]
  /\ log = <<>>
  /\ calls = <<>>
  /\ abortCalls = 0
  /\ assigns = 0

InitParser ==
  /\ text \in Texts(MaxLines)
  /\ buffer = <<>>
  /\ frames = <<>>
  /\ fed = <<>>
  /\ hasBody = TRUE
  /\ ProcessorIdle
  /\ IteratorIdle
  /\ EmitterIdle
  /\ AuxIdle
  /\ RunnerIdle

NextParser ==
  \/ Feed
  \/ ParserReset

SpecParser == InitParser /\ [][NextParser]_vars

-----------------------------------------------------------------------------
(* StreamProcessor.processStream: an async generator over the byte stream *)

MaxBlocks == 3      \* SSE blocks in the byte stream of one response

DoneData == <<"[", "D", "O", "N", "E", "]">>

\* mutant: no frame is taken for the sentinel
IsSentinelNever(event) == FALSE

\* event.data === "[DONE]"
IsSentinel(event) == event.data = DoneData

BlockSet == {"data:x", "data: [DONE]"}

\* byte streams made of up to n blocks, each a data line and a blank line
RECURSIVE Streams(_)
Streams(n) ==
  IF n = 0 THEN {<<>>}
  ELSE LET shorter == Streams(n - 1)
       IN shorter \cup { t \o Chars(b) \o <<NL, NL>> : t \in shorter, b \in BlockSet }

\* mutant: the exit leaves the reader locked and the parser as it was
FinallySkipped ==
  /\ UNCHANGED <<locked, buffer, frames, fed>>
  /\ pending' = <<>>

\* the finally block: reader.releaseLock(); this.parser.reset()
Finally ==
  /\ locked' = FALSE
  /\ buffer' = <<>>
  /\ frames' = <<>>
  /\ fed' = <<>>
  /\ pending' = <<>>

\* the first pull: the body check and getReader()
ProcStart ==
  /\ procPc = "start"
  /\ IF hasBody
       THEN procPc' = "reading" /\ locked' = TRUE
       ELSE procPc' = "threw" /\ locked' = locked
  /\ UNCHANGED <<text, buffer, frames, fed, pending, yielded, reads>>
  /\ UNCHANGED <<readsAtAbort, iteratorVars, emitter, auxVars>>
  /\ UNCHANGED runnerVars

\* await reader.read() delivers a chunk, which is decoded and parsed
ProcRead ==
  /\ procPc = "reading" /\ text # <<>>
  /\ \E n \in 1..Len(text) :
       LET chunk == SubSeq(text, 1, n)
           res == Parse(buffer, chunk)
       IN /\ buffer' = res.buffer
          /\ frames' = frames \o res.events
          /\ fed' = fed \o chunk
          /\ text' = SubSeq(text, n + 1, Len(text))
          /\ pending' = res.events
  /\ reads' = reads + 1
  /\ procPc' = "iterating"
  /\ UNCHANGED <<yielded, locked>>
  /\ UNCHANGED <<readsAtAbort, iteratorVars, emitter, auxVars>>
  /\ UNCHANGED runnerVars

\* await reader.read() reports the end of the byte stream: break
ProcReadDone ==
  /\ procPc = "reading" /\ text = <<>>
  /\ reads' = reads + 1
  /\ procPc' = "eof"
  /\ Finally
  /\ UNCHANGED <<text, yielded>>
  /\ UNCHANGED <<readsAtAbort, iteratorVars, emitter, auxVars>>
  /\ UNCHANGED runnerVars

\* await reader.read() rejects
ProcReadFails ==
  /\ procPc = "reading"
  /\ reads' = reads + 1
  /\ procPc' = "threw"
  /\ Finally
  /\ UNCHANGED <<text, yielded>>
  /\ UNCHANGED <<readsAtAbort, iteratorVars, emitter, auxVars>>
  /\ UNCHANGED runnerVars

\* one turn of for (const event of events), up to its yield
ProcIterate ==
  /\ procPc = "iterating"
  /\ IF pending = <<>>
       THEN /\ procPc' = "reading"
            /\ UNCHANGED <<buffer, frames, fed, pending, yielded, locked>>
       ELSE IF IsSentinel(Head(pending))
         THEN /\ procPc' = "sentinel"
              /\ Finally
              /\ UNCHANGED yielded
         ELSE /\ procPc' = "suspended"
              /\ yielded' = Append(yielded, Head(pending))
              /\ pending' = Tail(pending)
              /\ UNCHANGED <<buffer, frames, fed, locked>>
  /\ UNCHANGED <<text, reads>>
  /\ UNCHANGED <<readsAtAbort, iteratorVars, emitter, auxVars>>
  /\ UNCHANGED runnerVars

\* the consumer pulls the next frame: the generator resumes after its yield
ProcResume ==
  /\ procPc = "suspended"
  /\ procPc' = "iterating"
  /\ UNCHANGED <<text, buffer, frames, fed, pending, yielded, reads, locked>>
  /\ UNCHANGED <<readsAtAbort, iteratorVars, emitter, auxVars>>
  /\ UNCHANGED runnerVars

\* the consumer leaves its for-await loop: the generator is closed at its yield
ProcConsumerReturn ==
  /\ procPc = "suspended"
  /\ procPc' = "stopped"
  /\ Finally
  /\ UNCHANGED <<text, yielded, reads>>
  /\ UNCHANGED <<readsAtAbort, iteratorVars, emitter, auxVars>>
  /\ UNCHANGED runnerVars

\* StreamProcessor.abort(): the shared cancellation token is signalled
ProcAbort ==
  /\ ~aborted
  /\ procPc \in {"reading", "iterating", "suspended"}
  /\ aborted' = TRUE
  /\ readsAtAbort' = reads
  /\ UNCHANGED <<text, buffer, frames, fed, procPc, pending, yielded, reads, locked>>
  /\ UNCHANGED <<iteratorVars, emitter, auxVars>>
  /\ UNCHANGED <<variant, hasBody, pc, seen, contentSnapshot, isComplete,
                 finalValue, toolCallsSnapshot, finalToolCalls, events, log, calls,
                 abortCalls, assigns>>

InitProcessor ==
  /\ text \in Streams(MaxBlocks)
  /\ buffer = <<>>
  /\ frames = <<>>
  /\ fed = <<>>
  /\ hasBody \in BOOLEAN
  /\ ProcessorIdle
  /\ IteratorIdle
  /\ EmitterIdle
  /\ AuxIdle
  /\ RunnerIdle

NextProcessor ==
  \/ ProcStart
  \/ ProcRead
  \/ ProcReadDone
  \/ ProcReadFails
  \/ ProcIterate
  \/ ProcResume
  \/ ProcConsumerReturn
  \/ ProcAbort

SpecProcessor == InitProcessor /\ [][NextProcessor]_vars

-----------------------------------------------------------------------------
(* [Symbol.asyncIterator](): pull-based iteration over the runner's chunks *)

MaxNext == 4        \* next() calls settled on one iterator

\* what the runner emitted since the iterator registered its four handlers
IterSeen == SubSeq(log, iterBorn + 1, Len(log))

\* mutant: the chunk handler keeps only the latest chunk
IterChunksOverwritten ==
  LET sel == SelectSeq(IterSeen, LAMBDA e : e.name = "chunk")
  IN IF sel = <<>> THEN <<>> ELSE <<sel[Len(sel)].data>>

\* chunks: this.on("chunk", (chunk) => chunks.push(chunk))
IterChunks ==
  LET sel == SelectSeq(IterSeen, LAMBDA e : e.name = "chunk")
  IN [i \in 1..Len(sel) |-> sel[i].data]

\* isComplete of the iterator: set by its `end`, `error` and `abort` handlers
IterComplete ==
  \E i \in 1..Len(IterSeen) : IterSeen[i].name \in {"end", "error", "abort"}

\* error of the iterator: the `error` handler stores its argument, the `abort`
\* handler a new APIUserAbortError; the last assignment stands
IterError ==
  LET sel == SelectSeq(IterSeen, LAMBDA e : e.name \in {"error", "abort"})
  IN IF sel = <<>> THEN NULL
     ELSE IF sel[Len(sel)].name = "error" THEN sel[Len(sel)].data
     ELSE APIUserAbortError

\* mutant: next() hands out the buffered chunks before it looks at error
IterNextResultBufferFirst(chunks, index, error) ==
  IF index < Len(chunks) THEN [kind |-> "value", value |-> chunks[index + 1]]
  ELSE IF error # NULL THEN [kind |-> "throw", value |-> error]
  ELSE [kind |-> "done", value |-> NULL]

\* next() once its polling loop is over
IterNextResult(chunks, index, error) ==
  IF error # NULL THEN [kind |-> "throw", value |-> error]
  ELSE IF index < Len(chunks) THEN [kind |-> "value", value |-> chunks[index + 1]]
  ELSE [kind |-> "done", value |-> NULL]

\* the application asks the runner for its iterator
IterCreate ==
  /\ iterBorn = NoIndex
  /\ iterBorn' = Len(log)
  /\ UNCHANGED <<chunkIndex, results>>
  /\ UNCHANGED <<text, buffer, frames, fed, processorVars, emitter, auxVars>>
  /\ UNCHANGED runnerVars

\* a next() call settles: its polling loop ends once a chunk is buffered or
\* isComplete is set
IterNext ==
  /\ iterBorn # NoIndex
  /\ Len(results) < MaxNext
  /\ chunkIndex < Len(IterChunks) \/ IterComplete
  /\ LET res == IterNextResult(IterChunks, chunkIndex, IterError)
     IN /\ results' = Append(results,
                        [kind |-> res.kind, value |-> res.value,
                         backlog |-> Len(IterChunks) - chunkIndex])
        /\ chunkIndex' = IF res.kind = "value" THEN chunkIndex + 1 ELSE chunkIndex
  /\ UNCHANGED iterBorn
  /\ UNCHANGED <<text, buffer, frames, fed, processorVars, emitter, auxVars>>
  /\ UNCHANGED runnerVars

InitIterator == Init

NextIterator ==
  \/ Frame
  \/ EndOfSequence
  \/ ReadFails
  \/ BodyUnavailable
  \/ Abort
  \/ IterCreate
  \/ IterNext

SpecIterator == InitIterator /\ [][NextIterator]_vars

-----------------------------------------------------------------------------
(* EventEmitter on its own: the events map, its Set objects and live iteration *)

MaxOps == 3         \* calls the application makes on the emitter

EmitterEvents == {"e", "f"}

\* the functions the application registers; function 1 runs one command of the
\* emitter each time it is invoked, function 2 throws, function 3 does nothing
Handlers == 1..3

AllEvents == "*"

NoEntry == [h |-> 0, w |-> 0]

\* what on(event, handler) puts into the Set: the function itself
Plain(h) == [h |-> h, w |-> 0]

\* what once(event, handler) puts into the Set: a new closure around the function
EmitterOnceWrapper(h, k) == [h |-> h, w |-> k]

Cmd(op, ev, h) == [op |-> op, ev |-> ev, h |-> h]

Nop == Cmd("nop", "e", 0)

\* what function 1 may do on its first invocation, and on the later ones
FirstCmds ==
  { Nop, Cmd("on", "e", 3), Cmd("off", "e", 3), Cmd("off", "e", 1),
    Cmd("once", "e", 3), Cmd("removeAll", "e", 0), Cmd("removeAll", AllEvents, 0),
    Cmd("emit", "e", 0), Cmd("emit", "f", 0) }

LaterCmds == { Nop, Cmd("removeAll", "e", 0) }

Behaviours ==
  { [h \in Handlers |->
       IF h = 1 THEN [first |-> c1, later |-> c2]
       ELSE IF h = 2 THEN [first |-> Cmd("throw", "e", 0), later |-> Cmd("throw", "e", 0)]
       ELSE [first |-> Nop, later |-> Nop]] : c1 \in FirstCmds, c2 \in LaterCmds }

\* new EventEmitter(): an empty map; sets holds every Set object ever created
NewEmitter(beh) ==
  [events |-> [ev \in EmitterEvents |-> 0], sets |-> <<>>, serial |-> 0,
   emissions |-> 0, fired |-> [h \in Handlers |-> 0], raised |-> FALSE,
   beh |-> beh, trace |-> <<>>, ops |-> 0]

Record(m, kind, ev, x, emId, snap, ret) ==
  [m EXCEPT !.trace = Append(@, [kind |-> kind, ev |-> ev, x |-> x, em |-> emId,
                                 snap |-> snap, ret |-> ret])]

\* the entries of a Set object in insertion order
Members(set) == [i \in 1..Len(set) |-> set[i].x]

\* this.events.get(event), as the entries of the Set it returns
HandlersOf(m, ev) == IF m.events[ev] = 0 THEN <<>> ELSE Members(m.sets[m.events[ev]])

\* on(event, handler)
EmitterOn(m, ev, x) ==
  LET m1 == IF m.events[ev] = 0
              THEN [m EXCEPT !.sets = Append(@, <<>>), !.events[ev] = Len(m.sets) + 1]
              ELSE m
      id == m1.events[ev]
  IN IF \E i \in 1..Len(m1.sets[id]) : m1.sets[id][i].x = x THEN m1
     ELSE [m1 EXCEPT !.sets[id] = Append(@, [slot |-> m1.serial + 1, x |-> x]),
                     !.serial = @ + 1]

\* off(event, handler)
EmitterOff(m, ev, x) ==
  LET id == m.events[ev]
  IN IF id = 0 THEN m
     ELSE LET rest == SelectSeq(m.sets[id], LAMBDA el : el.x # x)
          IN [m EXCEPT !.sets[id] = rest,
                       !.events[ev] = IF rest = <<>> THEN 0 ELSE id]

\* once(event, handler)
EmitterOnce(m, ev, h) ==
  EmitterOn([m EXCEPT !.serial = @ + 1], ev, EmitterOnceWrapper(h, m.serial + 1))

\* removeAllListeners(event?): the Set objects themselves are left as they are
RemoveAllListeners(m, ev) ==
  IF ev = AllEvents THEN [m EXCEPT !.events = [e \in EmitterEvents |-> 0]]
  ELSE [m EXCEPT !.events[ev] = 0]

\* listenerCount(event)
ListenerCount(m, ev) == Len(HandlersOf(m, ev))

RECURSIVE EmitterEmit(_, _)

\* one call on the emitter, made by the application or by function 1
Perform(m, c) ==
  CASE c.op = "nop" -> m
    [] c.op = "throw" ->
         Record([m EXCEPT !.raised = TRUE], "throw", c.ev, NoEntry, 0, <<>>, FALSE)
    [] c.op = "on" ->
         EmitterOn(Record(m, "on", c.ev, Plain(c.h), 0, <<>>, FALSE), c.ev, Plain(c.h))
    [] c.op = "off" ->
         EmitterOff(Record(m, "off", c.ev, Plain(c.h), 0, <<>>, FALSE), c.ev, Plain(c.h))
    [] c.op = "once" ->
         EmitterOnce(Record(m, "on", c.ev, EmitterOnceWrapper(c.h, m.serial + 1),
                            0, <<>>, FALSE), c.ev, c.h)
    [] c.op = "removeAll" ->
         RemoveAllListeners(Record(m, "removeAll", c.ev, NoEntry, 0, <<>>, FALSE), c.ev)
    [] c.op = "emit" -> EmitterEmit(m, c.ev)

\* the body of the function behind entry x
HandlerBody(m, ev, x, emId) ==
  LET c == IF m.fired[x.h] = 0 THEN m.beh[x.h].first ELSE m.beh[x.h].later
  IN Perform(Record([m EXCEPT !.fired[x.h] = @ + 1], "call", ev, x, emId, <<>>, FALSE), c)

\* mutant: emit without its try/catch
HandlerCatchRethrows(m, ev, x, emId) == m

\* catch (error) { console.error(...) }
HandlerCatch(m, ev, x, emId) ==
  Record([m EXCEPT !.raised = FALSE], "caught", ev, x, emId, <<>>, FALSE)

\* handler(data) inside the try of emit; a once wrapper first removes itself
InvokeHandler(m, ev, x, emId) ==
  LET m1 == IF x.w # 0 THEN EmitterOff(m, ev, x) ELSE m
      m2 == HandlerBody(m1, ev, x, emId)
  IN IF m2.raised THEN HandlerCatch(m2, ev, x, emId) ELSE m2

\* mutant: the iteration takes the entry inserted last
NextIndexLatest(set, last) ==
  CHOOSE i \in 1..Len(set) :
    set[i].slot > last /\ \A j \in 1..Len(set) : set[j].slot <= set[i].slot

\* the Set iterator's next entry: the oldest one inserted after the entry it
\* visited last
NextIndex(set, last) ==
  CHOOSE i \in 1..Len(set) :
    /\ set[i].slot > last
    /\ \A j \in 1..Len(set) : set[j].slot > last => set[i].slot <= set[j].slot

\* for (const handler of handlers): the Set object is iterated while it changes
RECURSIVE EmitterLoop(_, _, _, _, _)
EmitterLoop(m, ev, id, last, emId) ==
  IF m.raised THEN m
  ELSE IF \A i \in 1..Len(m.sets[id]) : m.sets[id][i].slot <= last
    THEN Record(m, "return", ev, NoEntry, emId, <<>>, TRUE)
  ELSE LET el == m.sets[id][NextIndex(m.sets[id], last)]
       IN EmitterLoop(InvokeHandler(m, ev, el.x, emId), ev, id, el.slot, emId)

\* emit(event, data)
EmitterEmit(m, ev) ==
  LET id == m.events[ev]
      emId == m.emissions + 1
      m1 == Record([m EXCEPT !.emissions = emId], "emit", ev, NoEntry, emId,
                   HandlersOf(m, ev), FALSE)
  IN IF id = 0 \/ Len(m.sets[id]) = 0
       THEN Record(m1, "return", ev, NoEntry, emId, <<>>, FALSE)
       ELSE EmitterLoop(m1, ev, id, 0, emId)

\* the calls the application makes
AppCmds ==
  { Cmd("on", "e", h) : h \in Handlers } \cup { Cmd("on", "f", 3) }
    \cup { Cmd("once", "e", 3), Cmd("once", "e", 1) }
    \cup { Cmd("off", "e", h) : h \in Handlers }
    \cup { Cmd("emit", ev, 0) : ev \in EmitterEvents }
    \cup { Cmd("removeAll", "e", 0), Cmd("removeAll", AllEvents, 0) }

\* the application calls on(event, handler)
CallOn ==
  /\ emitter.ops < MaxOps
  /\ \E c \in AppCmds :
       c.op = "on" /\ emitter' = Perform([emitter EXCEPT !.ops = @ + 1], c)
  /\ UNCHANGED <<text, buffer, frames, fed, processorVars, iteratorVars, auxVars>>
  /\ UNCHANGED runnerVars

\* the application calls off(event, handler)
CallOff ==
  /\ emitter.ops < MaxOps
  /\ \E c \in AppCmds :
       c.op = "off" /\ emitter' = Perform([emitter EXCEPT !.ops = @ + 1], c)
  /\ UNCHANGED <<text, buffer, frames, fed, processorVars, iteratorVars, auxVars>>
  /\ UNCHANGED runnerVars

\* the application calls once(event, handler)
CallOnce ==
  /\ emitter.ops < MaxOps
  /\ \E c \in AppCmds :
       c.op = "once" /\ emitter' = Perform([emitter EXCEPT !.ops = @ + 1], c)
  /\ UNCHANGED <<text, buffer, frames, fed, processorVars, iteratorVars, auxVars>>
  /\ UNCHANGED runnerVars

\* the application calls emit(event, data)
CallEmit ==
  /\ emitter.ops < MaxOps
  /\ \E c \in AppCmds :
       c.op = "emit" /\ emitter' = Perform([emitter EXCEPT !.ops = @ + 1], c)
  /\ UNCHANGED <<text, buffer, frames, fed, processorVars, iteratorVars, auxVars>>
  /\ UNCHANGED runnerVars

\* the application calls removeAllListeners(event?)
CallRemoveAllListeners ==
  /\ emitter.ops < MaxOps
  /\ \E c \in AppCmds :
       c.op = "removeAll" /\ emitter' = Perform([emitter EXCEPT !.ops = @ + 1], c)
  /\ UNCHANGED <<text, buffer, frames, fed, processorVars, iteratorVars, auxVars>>
  /\ UNCHANGED runnerVars

InitEmitter ==
  /\ emitter \in { NewEmitter(b) : b \in Behaviours }
  /\ text = <<>> /\ buffer = <<>> /\ frames = <<>> /\ fed = <<>>
  /\ hasBody = TRUE
  /\ ProcessorIdle
  /\ IteratorIdle
  /\ AuxIdle
  /\ RunnerIdle

NextEmitter ==
  \/ CallOn
  \/ CallOff
  \/ CallOnce
  \/ CallEmit
  \/ CallRemoveAllListeners

SpecEmitter == InitEmitter /\ [][NextEmitter]_vars

-----------------------------------------------------------------------------
(* Two runners built on different responses *)

MaxPeerFrames == 2  \* frames pulled by the second runner

\* the fields of a runner after its constructor
NewRunner ==
  [variant |-> "chat", hasBody |-> TRUE, pc |-> "streaming", seen |-> <<>>,
   aborted |-> FALSE, contentSnapshot |-> "", isComplete |-> FALSE,
   finalValue |-> NULL, toolCallsSnapshot |-> <<>>,
   finalToolCalls |-> NoFinalToolCalls,
   events |-> [n \in EventNames |-> <<UserHandler(n)>>], log |-> <<>>,
   calls |-> <<>>, abortCalls |-> 0, assigns |-> 0, trigger |-> "none",
   throws |-> "none", caught |-> 0]

\* what happens to a runner: a frame is pulled, abort() is called, or its stream
\* ends (data is read for frames only)
PeerOps ==
  { [kind |-> "frame", data |-> Json(ChatChunk("Hello", NULL, <<>>))],
    [kind |-> "frame", data |-> Json(ChatChunk(" world", "stop", <<>>))],
    [kind |-> "abort", data |-> Malformed],
    [kind |-> "end", data |-> Malformed] }

\* mutant: one AbortController shared by every runner
SharedToken(own, other) == own \/ other

\* this.abortController: a controller created by the instance for itself
OwnToken(own, other) == own

\* one step of a runner r while the other runner's token reads otherAborted
RunnerStep(r, op, otherAborted) ==
  LET me == [r EXCEPT !.aborted = OwnToken(r.aborted, otherAborted)]
  IN CASE op.kind = "abort" -> AbortMethod(me)
       [] op.kind = "end" -> Exhausted(me)
       [] OTHER -> LoopBody([me EXCEPT !.seen = Append(@, op.data)], op.data)

\* the second runner pulls a frame, reaches the end of its stream, or is aborted
PeerStep ==
  /\ \E op \in PeerOps :
       /\ op.kind = "frame" => (peer.r.pc = "streaming" /\ Len(peer.r.seen) < MaxPeerFrames)
       /\ op.kind = "end" => peer.r.pc = "streaming"
       /\ op.kind = "abort" => peer.r.abortCalls < MaxAborts
       /\ peer' = [r |-> RunnerStep(peer.r, op, aborted), ops |-> Append(peer.ops, op)]
  /\ UNCHANGED <<text, buffer, frames, fed, processorVars, iteratorVars, emitter,
                 retry, request>>
  /\ UNCHANGED runnerVars

InitPair ==
  /\ peer = [r |-> NewRunner, ops |-> <<>>]
  /\ retry = NULL /\ request = NULL
  /\ text = <<>> /\ buffer = <<>> /\ frames = <<>> /\ fed = <<>>
  /\ hasBody = TRUE
  /\ ProcessorIdle
  /\ IteratorIdle
  /\ EmitterIdle
  /\ RunnerIdle

NextPair ==
  \/ Frame
  \/ EndOfSequence
  \/ Abort
  \/ PeerStep

SpecPair == InitPair /\ [][NextPair]_vars

-----------------------------------------------------------------------------
(* withRetry(fn, options) *)

MaxRetriesOption == 2   \* largest maxRetries passed explicitly

DefaultMaxRetries == 3

\* what one call of fn settles with: a value, or something it throws
Ok == [cls |-> "ok", status |-> 0, name |-> "", message |-> ""]

APIErrorWith(status) ==
  [cls |-> "APIError", status |-> status, name |-> "APIError", message |-> "API error"]

ErrorWith(name, message) ==
  [cls |-> "Error", status |-> 0, name |-> name, message |-> message]

Thrown ==
  { APIErrorWith(st) : st \in {400, 404, 429, 500, 502, 503, 504} }
    \cup { ErrorWith("AbortError", "The operation was aborted"),
           ErrorWith("TypeError", "fetch failed"),
           ErrorWith("Error", "network down"),
           ErrorWith("Error", "bad input"),
           [cls |-> "value", status |-> 0, name |-> "", message |-> "thrown string"] }

LoopFellThrough == ErrorWith("Error", "Retry logic failed unexpectedly")

\* error.message.includes("fetch") || error.message.includes("network")
MentionsFetchOrNetwork(message) == message \in {"fetch failed", "network down"}

\* mutant: every failure is retried
IsRetryableAlways(error) == TRUE

\* isRetryableError(error)
IsRetryableError(error) ==
  IF error.cls = "APIError" THEN error.status \in {429, 500, 502, 503, 504}
  ELSE IF error.cls = "Error"
    THEN error.name = "AbortError" \/ MentionsFetchOrNetwork(error.message)
  ELSE FALSE

\* const { maxRetries = 3 } = options
MaxRetriesOf(options) == IF options.given THEN options.maxRetries ELSE DefaultMaxRetries

RetryOptionsSet ==
  { [given |-> FALSE, maxRetries |-> 0] }
    \cup { [given |-> TRUE, maxRetries |-> m] : m \in -1..MaxRetriesOption }

\* withRetry entered: attempt = 1, fn not called yet
NewRetry(options) ==
  [maxRetries |-> MaxRetriesOf(options), attempt |-> 1, outcomes |-> <<>>,
   st |-> "running", value |-> Ok]

\* try { return await fn() } catch: one turn of the loop up to its return,
\* its throw or its delay
RetryAttempt ==
  /\ retry.st = "running" /\ retry.attempt <= retry.maxRetries + 1
  /\ \E out \in Thrown \cup {Ok} :
       retry' =
         LET r == [retry EXCEPT !.outcomes = Append(@, out)]
         IN IF out = Ok THEN [r EXCEPT !.st = "returned", !.value = out]
            ELSE IF retry.attempt = retry.maxRetries + 1 \/ ~IsRetryableError(out)
              THEN [r EXCEPT !.st = "threw", !.value = out]
            ELSE [r EXCEPT !.st = "waiting"]
  /\ UNCHANGED <<text, buffer, frames, fed, processorVars, iteratorVars, emitter,
                 peer, request>>
  /\ UNCHANGED runnerVars

\* the delay promise resolves: attempt++
RetryDelayOver ==
  /\ retry.st = "waiting"
  /\ retry' = [retry EXCEPT !.st = "running", !.attempt = @ + 1]
  /\ UNCHANGED <<text, buffer, frames, fed, processorVars, iteratorVars, emitter,
                 peer, request>>
  /\ UNCHANGED runnerVars

\* the loop condition fails: throw new Error("Retry logic failed unexpectedly")
RetryLoopExit ==
  /\ retry.st = "running" /\ retry.attempt > retry.maxRetries + 1
  /\ retry' = [retry EXCEPT !.st = "threw", !.value = LoopFellThrough]
  /\ UNCHANGED <<text, buffer, frames, fed, processorVars, iteratorVars, emitter,
                 peer, request>>
  /\ UNCHANGED runnerVars

InitRetry ==
  /\ retry \in { NewRetry(o) : o \in RetryOptionsSet }
  /\ peer = NULL /\ request = NULL
  /\ text = <<>> /\ buffer = <<>> /\ frames = <<>> /\ fed = <<>>
  /\ hasBody = TRUE
  /\ ProcessorIdle
  /\ IteratorIdle
  /\ EmitterIdle
  /\ RunnerIdle

NextRetry ==
  \/ RetryAttempt
  \/ RetryDelayOver
  \/ RetryLoopExit

\* fn settles and timers fire
SpecRetry == InitRetry /\ [][NextRetry]_vars /\ WF_vars(NextRetry)

-----------------------------------------------------------------------------
(* What the frames pulled so far say, for the statements below *)

HelloFrame == Json(ChatChunk("Hello", NULL, <<>>))

WorldStopFrame == Json(ChatChunk(" world", "stop", <<>>))

HasChoice(data) ==
  data.json /\ data.value.hasChoices /\ data.value.choices # <<>>

HasFinish(data) ==
  HasChoice(data) /\ Truthy(data.value.choices[1].finish_reason)

\* the non-empty delta.content / text of a frame, "" when it has none
FrameContent(data) ==
  IF ~HasChoice(data) THEN ""
  ELSE LET c == IF variant = "chat" THEN data.value.choices[1].delta.content
                ELSE data.value.choices[1].text
       IN IF Truthy(c) THEN c ELSE ""

RECURSIVE ConcatContent(_)
ConcatContent(fs) ==
  IF fs = <<>> THEN "" ELSE FrameContent(Head(fs)) \o ConcatContent(Tail(fs))

LastHasFinish == seen # <<>> /\ HasFinish(seen[Len(seen)])

OnlyLastHasFinish ==
  LastHasFinish /\ \A k \in 1..(Len(seen) - 1) : ~HasFinish(seen[k])

Resolved(i) == calls[i].st = "resolved"

LogIndex == 1..Len(log)

CountEvents(name) == Cardinality({ j \in LogIndex : log[j].name = name })

-----------------------------------------------------------------------------
(* C1 *)

\* C1, as stated: on a runner nobody aborted, whenever the last chat frame
\* pulled carries a finish_reason, every finalContent() that resolved did so
\* with the concatenation of all non-empty delta.content values pulled so far.
C1_Original ==
  (variant = "chat" /\ abortCalls = 0 /\ LastHasFinish) =>
    \A i \in 1..Len(calls) :
      (calls[i].api = "final" /\ Resolved(i)) => calls[i].val = ConcatContent(seen)

\* C1, amended: when the last frame pulled is the only one that carries a
\* finish_reason, every finalContent() that resolved did so with the
\* concatenation of all non-empty delta.content values in arrival order, and
\* once the sequence is exhausted that is the value finalContent() returns.
C1_FinalContentIsConcatenation ==
  (variant = "chat" /\ OnlyLastHasFinish) =>
    /\ \A i \in 1..Len(calls) :
         (calls[i].api = "final" /\ Resolved(i)) => calls[i].val = ConcatContent(seen)
    /\ pc = "ended" => finalValue = ConcatContent(seen)

C1_Witness ==
  /\ variant = "chat" /\ pc = "ended"
  /\ seen = <<HelloFrame, WorldStopFrame>>
  /\ \E i \in 1..Len(calls) :
       calls[i].api = "final" /\ Resolved(i) /\ calls[i].val = "Hello world"

-----------------------------------------------------------------------------
(* C2 *)

\* C2: once a well-formed SSE text has been fed whole, in whatever chunks, the
\* frames returned by the successive parse calls are the frames one parse call
\* returns for the whole text.
C2_BoundaryInsensitive ==
  text = <<>> => frames = Parse(<<>>, fed).events

-----------------------------------------------------------------------------
(* C3 *)

ContentDeltas ==
  LET sel == SelectSeq(log, LAMBDA e : e.name = "content.delta")
  IN [j \in 1..Len(sel) |-> sel[j].data.delta]

\* the step in which a not-aborted runner pulls a frame whose data is not JSON
MalformedFrameStep ==
  /\ Len(seen') = Len(seen) + 1
  /\ ~aborted
  /\ ~seen'[Len(seen')].json

C3_Step ==
  MalformedFrameStep =>
    /\ pc' = "streaming"
    /\ contentSnapshot' = contentSnapshot
    /\ toolCallsSnapshot' = toolCallsSnapshot
    /\ finalValue' = finalValue
    /\ finalToolCalls' = finalToolCalls
    /\ isComplete' = isComplete
    /\ Len(log') > Len(log)
    /\ SubSeq(log', 1, Len(log)) = log
    /\ log'[Len(log) + 1].name = "error"
    /\ log'[Len(log) + 1].data = "SyntaxError"
    /\ \A j \in (Len(log) + 2)..Len(log') : log'[j].name = "abort"

C3_Scenario ==
  (variant = "chat" /\ abortCalls = 0 /\ pc \in {"streaming", "ended"}
     /\ seen = <<HelloFrame, Malformed, WorldStopFrame>>) =>
    /\ CountEvents("error") = 1
    /\ ContentDeltas = <<"Hello", " world">>
    /\ finalValue = "Hello world"

-----------------------------------------------------------------------------
(* C4 *)

PerFrameErrors == {"SyntaxError", "TypeError"}

Settling == {"end", "error", "abort"}

\* the i-th call subscribed to end/error/abort
Subscribed(i) == calls[i].done # "none" /\ calls[i].born # "complete"

\* log[j] is the first end/error/abort emitted after the i-th call
FirstSettling(i, j) ==
  /\ j > calls[i].bornLog
  /\ log[j].name \in Settling
  /\ \A k \in (calls[i].bornLog + 1)..(j - 1) : log[k].name \notin Settling

-----------------------------------------------------------------------------
(* C5 *)

\* C5, as stated: no `chunk` or `content.delta` event is emitted once abort()
\* has been called.
C5_Original ==
  \A j \in LogIndex :
    log[j].name \in {"chunk", "content.delta"} => ~log[j].aborted

\* C5, amended: no `chunk` event is emitted once abort() has been called, and
\* a content.delta / text.delta emitted after abort() belongs to the frame
\* whose `chunk` event was emitted before the abort (the frame in flight).
C5_NoNewFrameAfterAbort ==
  \A j \in LogIndex :
    /\ log[j].name = "chunk" => ~log[j].aborted
    /\ (log[j].name \in {"content.delta", "text.delta"} /\ log[j].aborted) =>
         \E j0 \in 1..(j - 1) :
           /\ log[j0].name = "chunk"
           /\ log[j0].frame = log[j].frame
           /\ ~log[j0].aborted

C5_Witness ==
  /\ variant = "chat" /\ pc = "abortReturn"
  /\ seen = <<HelloFrame, HelloFrame>>
  /\ CountEvents("chunk") = 1
  /\ CountEvents("content.delta") = 1

-----------------------------------------------------------------------------
(* C6 *)

\* C6: after abort() on a runner that has not finalized, the exhaustion of the
\* frame sequence does not finalize: no `end` is emitted and the loop does not
\* reach its end.
C6_NoFinalizeAfterAbort ==
  \A j0 \in LogIndex :
    (log[j0].name = "abort" /\ ~log[j0].complete) =>
      /\ pc # "ended"
      /\ \A j \in (j0 + 1)..Len(log) : log[j].name # "end"

-----------------------------------------------------------------------------
(* C7 *)

C7_Step ==
  abortCalls' > abortCalls =>
    \A i \in 1..Len(calls) :
      calls[i].done = "pending" =>
        /\ calls'[i].done = "rejected"
        /\ calls'[i].st = "rejected"
        /\ calls'[i].val = APIUserAbortError

C7_Once ==
  \A i \in 1..Len(calls) :
    /\ calls[i].done \in {"resolved", "rejected"} => calls'[i].done = calls[i].done
    /\ calls[i].st = "rejected" => calls'[i] = calls[i]
    /\ (calls[i].api = "done" /\ calls[i].st = "resolved") => calls'[i] = calls[i]

\* C7: a step in which abort() is called rejects every done() promise that was
\* pending with APIUserAbortError, and a settled promise never changes again.
C7_AbortRejectsPendingOnce == [][C7_Step /\ C7_Once]_vars

C7_Witness ==
  /\ pc = "ended"
  /\ \E i \in 1..Len(calls) :
       /\ calls[i].api = "done" /\ calls[i].born = "streaming"
       /\ calls[i].st = "rejected" /\ calls[i].val = APIUserAbortError

-----------------------------------------------------------------------------
(* C8 *)

\* C8: a done() call made in a terminal state is settled when it returns:
\* resolved if complete, rejected with the abort error if aborted, rejected
\* if errored.
C8_TerminalDoneSettlesImmediately ==
  \A i \in 1..Len(calls) :
    calls[i].api = "done" =>
      /\ calls[i].born = "complete" => calls[i].st = "resolved"
      /\ calls[i].born = "aborted" =>
           calls[i].st = "rejected" /\ calls[i].val = APIUserAbortError
      /\ calls[i].born = "errored" => calls[i].st = "rejected"

-----------------------------------------------------------------------------
(* C9 *)

FirstFinish ==
  CHOOSE k \in 1..Len(seen) :
    HasFinish(seen[k]) /\ \A m \in 1..(k - 1) : ~HasFinish(seen[m])

\* C9: on a runner nobody aborted, once a frame with a finish_reason has been
\* processed, the value finalContent() returns is the content snapshot as of
\* that frame, whatever frames follow.
C9_FinalContentFrozenAtFinish ==
  (abortCalls = 0 /\ \E k \in 1..Len(seen) : HasFinish(seen[k])) =>
    finalValue = ConcatContent(SubSeq(seen, 1, FirstFinish))

-----------------------------------------------------------------------------
(* C10 *)

\* C10: the final content/text is assigned at most once and content.done /
\* text.done is emitted at most once.
C10_FinalizedAtMostOnce ==
  /\ assigns <= 1
  /\ CountEvents("content.done") <= 1
  /\ CountEvents("text.done") <= 1

-----------------------------------------------------------------------------
(* C11 *)

DeltaEvents == {"content.delta", "text.delta", "tool_calls.function.arguments.delta"}

\* C11: on a runner nobody aborted, once a frame with a finish_reason has made
\* the runner complete, no
\* content.delta / text.delta / tool-call delta event is emitted any more
\* (each of them follows a mutation of a snapshot).
C11_NoDeltaAfterComplete ==
  abortCalls = 0 =>
    \A j \in LogIndex : log[j].name \in DeltaEvents => ~log[j].complete

-----------------------------------------------------------------------------
(* C12 *)

\* a finalContent() / finalText() promise becomes resolved in this step
C12_ResolveStep ==
  \A i \in 1..Len(calls') :
    (/\ calls'[i].api = "final"
     /\ calls'[i].st = "resolved"
     /\ (i > Len(calls) \/ calls[i].st # "resolved")) =>
      /\ isComplete'
      /\ finalValue' # NULL
      /\ calls'[i].val = finalValue'

C12_NotResolvedWhileStreaming ==
  \A i \in 1..Len(calls) :
    (calls[i].api = "final" /\ RunnerState = "streaming") =>
      \/ calls[i].st = "pending"
      \/ calls[i].st = "rejected" /\ calls[i].val \in PerFrameErrors

-----------------------------------------------------------------------------
(* C13 *)

ToolDone == "tool_calls.function.arguments.done"

ToolDeltasOf(data) ==
  IF HasChoice(data) THEN data.value.choices[1].delta.tool_calls ELSE <<>>

RECURSIVE DeltaArgs(_, _)
DeltaArgs(ds, i) ==
  IF ds = <<>> THEN ""
  ELSE (IF Head(ds).index = i /\ Truthy(Head(ds).function.arguments)
          THEN Head(ds).function.arguments ELSE "") \o DeltaArgs(Tail(ds), i)

\* the arguments fragments delivered at index i by the frames fs, concatenated
RECURSIVE ArgumentsDelivered(_, _)
ArgumentsDelivered(fs, i) ==
  IF fs = <<>> THEN ""
  ELSE DeltaArgs(ToolDeltasOf(Head(fs)), i) \o ArgumentsDelivered(Tail(fs), i)

\* the indices that received at least one delta from the frames fs
PopulatedIndices(fs) ==
  { d.index : d \in UNION { Range(ToolDeltasOf(fs[k])) : k \in 1..Len(fs) } }
    \ {NoIndex}

\* C13: the arguments of a tool call depend only on the concatenation of the
\* fragments delivered at its index, not on how the string was split: in the
\* snapshot, and in every tool-call done event, `arguments` is the
\* concatenation of the fragments delivered so far at that index, which is
\* the value obtained by delivering that string whole.
C13_ArgumentsInsensitiveToFragmentation ==
  /\ \A i \in DOMAIN toolCallsSnapshot :
       toolCallsSnapshot[i].function.arguments = ArgumentsDelivered(seen, i)
  /\ \A j \in LogIndex :
       log[j].name = ToolDone =>
         log[j].data.toolCall.function.arguments =
           ArgumentsDelivered(SubSeq(seen, 1, log[j].frame), log[j].data.index)

C13_Witness ==
  /\ Len(seen) = 3
  /\ ToolDeltasOf(seen[1]) = <<ToolCallDelta(0, "call_0", "f", "a")>>
  /\ ToolDeltasOf(seen[2]) = <<ToolCallDelta(0, NULL, NULL, "b")>>
  /\ HasFinish(seen[3])
  /\ \E j \in LogIndex :
       /\ log[j].name = ToolDone /\ log[j].data.index = 0
       /\ log[j].data.toolCall.function.arguments = "ab"
  /\ finalToolCalls.set
  /\ Deref(finalToolCalls.value, toolCallsSnapshot)[1].function.arguments = "ab"

-----------------------------------------------------------------------------
(* C14 *)

\* the elements of a finite set of integers in ascending order
Ascending(S) ==
  CHOOSE q \in [1..Cardinality(S) -> S] :
    \A a, b \in 1..Cardinality(S) : a < b => q[a] < q[b]

\* the accumulated tool calls in ascending index order
ToolCallsInIndexOrder ==
  LET idx == Ascending(PopulatedIndices(seen))
  IN [j \in 1..Len(idx) |-> toolCallsSnapshot[idx[j]]]

\* C14: on a stream in which no frame follows a frame with a finish_reason,
\* what finalToolCalls() resolved to is, once the stream has ended, the
\* sequence of accumulated tool calls in ascending index order, one entry per
\* index that received a delta.
C14_FinalToolCallsInIndexOrder ==
  \A i \in 1..Len(calls) :
    (/\ calls[i].api = "finalTools" /\ calls[i].st = "resolved"
     /\ pc = "ended"
     /\ \A k \in 1..(Len(seen) - 1) : ~HasFinish(seen[k])) =>
      calls[i].val = ToolCallsInIndexOrder

-----------------------------------------------------------------------------
(* C15 *)

\* C15: when the last frame processed, and no earlier one, carries a
\* finish_reason, a tool-call done event has been emitted for every populated
\* index, carrying that index and its final snapshot.
C15_DoneEventPerPopulatedIndex ==
  (variant = "chat" /\ pc = "streaming" /\ OnlyLastHasFinish) =>
    \A k \in PopulatedIndices(seen) :
      \E j \in LogIndex :
        /\ log[j].name = ToolDone
        /\ log[j].data.index = k
        /\ log[j].data.toolCall = toolCallsSnapshot[k]

-----------------------------------------------------------------------------
(* C16 *)

\* what finalToolCalls() returns on a complete runner
FinalToolCallsReturn ==
  IF finalToolCalls.set THEN Deref(finalToolCalls.value, toolCallsSnapshot)
  ELSE <<>>

\* C16: when the frame sequence is exhausted and no frame carried a
\* finish_reason, the runner is complete, the content and the tool calls are
\* frozen (finalToolCalls() returns every accumulated tool call), a tool-call
\* done event was emitted per populated index, and `end`
\* is the last event, emitted by a complete runner.
C16_ExhaustionFinalizesLikeFinish ==
  (variant = "chat" /\ pc = "ended" /\ abortCalls = 0
     /\ \A k \in 1..Len(seen) : ~HasFinish(seen[k])) =>
    /\ isComplete
    /\ finalValue = contentSnapshot
    /\ FinalToolCallsReturn = ToolCallsInIndexOrder
    /\ \A k \in PopulatedIndices(seen) :
         \E j \in LogIndex :
           /\ log[j].name = ToolDone
           /\ log[j].data.index = k
           /\ log[j].data.toolCall = toolCallsSnapshot[k]
    /\ log[Len(log)].name = "end" /\ log[Len(log)].complete

-----------------------------------------------------------------------------
(* C17 *)

\* C17: every content.done event carries a non-empty content.
C17_ContentDoneOnlyWhenNonEmpty ==
  \A j \in LogIndex :
    log[j].name = "content.done" => Truthy(log[j].data.content)

-----------------------------------------------------------------------------
(* C18 *)

\* the position of an event among the processing steps of one frame
StepRank(name) ==
  CASE name = "chunk" -> 1
    [] name \in {"content.delta", "text.delta"} -> 2
    [] name = "tool_calls.function.arguments.delta" -> 3
    [] name \in {"content.done", "text.done"} -> 4
    [] name = ToolDone -> 5
    [] OTHER -> 0

Ranked(j) == StepRank(log[j].name) > 0

StopFrame == Json(ChatChunk(NULL, "stop", <<>>))

\* the names of the events emitted so far, `chunk` left out
EventNamesEmitted ==
  LET sel == SelectSeq(log, LAMBDA e : e.name # "chunk")
  IN [j \in 1..Len(sel) |-> sel[j].name]

\* C18: events follow the arrival order of the frames; the events of one
\* frame come in the order chunk, content.delta / text.delta, tool-call
\* deltas, content.done / text.done, tool-call done (chunk, the content delta
\* and the content done at most once each); `end` is emitted exactly when the
\* frame sequence is exhausted, once, and after it the loop emits nothing
\* (only abort() can still emit `abort`).
C18_EventOrdering ==
  /\ \A j, k \in LogIndex :
       j < k =>
         /\ log[j].frame <= log[k].frame
         /\ (log[j].frame = log[k].frame /\ Ranked(j) /\ Ranked(k)) =>
              /\ StepRank(log[j].name) <= StepRank(log[k].name)
              /\ StepRank(log[j].name) \in {1, 2, 4} =>
                   StepRank(log[j].name) < StepRank(log[k].name)
         /\ log[j].name = "end" => log[k].name = "abort"
  /\ CountEvents("end") = (IF pc = "ended" THEN 1 ELSE 0)

C18_Witness ==
  /\ variant = "chat" /\ pc = "ended"
  /\ seen = <<HelloFrame, HelloFrame, StopFrame>>
  /\ EventNamesEmitted = <<"content.delta", "content.delta", "content.done", "end">>

-----------------------------------------------------------------------------
(* C19 *)

\* the content.delta / text.delta events emitted so far
DeltaLog == SelectSeq(log, LAMBDA e : e.name \in {"content.delta", "text.delta"})

RECURSIVE ConcatDeltas(_)
ConcatDeltas(es) ==
  IF es = <<>> THEN "" ELSE Head(es).data.delta \o ConcatDeltas(Tail(es))

\* C19: every content.delta / text.delta event carries a non-empty delta and
\* a snapshot equal to the concatenation of the deltas of all such events
\* emitted so far, this one included.
C19_DeltaSnapshotIsPrefixConcatenation ==
  \A m \in 1..Len(DeltaLog) :
    /\ DeltaLog[m].data.delta # ""
    /\ DeltaLog[m].data.delta # NULL
    /\ DeltaLog[m].data.snapshot = ConcatDeltas(SubSeq(DeltaLog, 1, m))

C19_Witness ==
  /\ abortCalls = 0
  /\ Len(DeltaLog) = 2
  /\ DeltaLog[1].data = [delta |-> "Hello", snapshot |-> "Hello"]
  /\ DeltaLog[2].data = [delta |-> " world", snapshot |-> "Hello world"]

-----------------------------------------------------------------------------
(* C20 *)

C20_NoSentinelYielded ==
  \A j \in 1..Len(yielded) : yielded[j].data # DoneData

C20_Step ==
  /\ (/\ procPc = "iterating" /\ pending # <<>> /\ Head(pending).data = DoneData
      /\ aborted' = aborted) =>
       /\ procPc' = "sentinel"
       /\ yielded' = yielded
       /\ pending' = <<>>
       /\ reads' = reads
  /\ procPc = "sentinel" =>
       /\ procPc' = "sentinel"
       /\ yielded' = yielded
       /\ reads' = reads
       /\ text' = text

\* C20: no frame yielded by processStream has the data [DONE]; when the
\* generator meets such a frame it ends at once without yielding the frames
\* that follow it in the chunk, and from then on it yields nothing, reads
\* nothing and leaves the rest of the byte stream unread.
C20_SentinelEndsSequence == []C20_NoSentinelYielded /\ [][C20_Step]_vars

C20_Witness ==
  /\ procPc = "sentinel"
  /\ Len(yielded) = 1
  /\ text # <<>>
  /\ reads = 1


-----------------------------------------------------------------------------
(* The reader and the cancellation token of StreamProcessor.processStream *)

\* processStream has terminated after response.body.getReader()
ProcTerminated ==
  \/ procPc \in {"eof", "sentinel", "stopped"}
  \/ procPc = "threw" /\ hasBody

C21_Released == ProcTerminated => (~locked /\ buffer = <<>>)

C21_Step ==
  /\ reads' # reads => locked
  /\ ProcTerminated => (ProcTerminated' /\ reads' = reads /\ ~locked')

\* C21: on every path by which processStream terminates after it acquired the
\* reader (end of stream, [DONE], a read that throws, the consumer stopping
\* early) the reader lock is released and the parser buffer is empty; a read is
\* made only while the lock is held and none is made after the termination.
C21_ReleasedOnEveryExit == []C21_Released /\ [][C21_Step]_vars

\* the consumer stopped before the end of the byte stream, after two reads
C21_Witness ==
  /\ procPc = "stopped" /\ text # <<>> /\ reads >= 2
  /\ ~locked /\ buffer = <<>>

\* C22: after the cancellation token is signalled the read loop makes at most
\* one further read.
C22_StopsWithinOneChunk == aborted => reads <= readsAtAbort + 1


-----------------------------------------------------------------------------
(* Failures that escape the consumption loop *)


\* C23: a runner built on a response without a body, and never aborted, emits
\* exactly one `error` and no other event, and every done() / finalContent() /
\* finalText() promise is rejected with that error.
C23_BodyUnavailableFails ==
  (~hasBody /\ abortCalls = 0 /\ pc # "streaming") =>
    /\ Len(log) = 1 /\ log[1].name = "error" /\ log[1].data = BodyIsNull
    /\ \A i \in 1..Len(calls) :
         calls[i].st = "rejected" /\ calls[i].val = BodyIsNull


\* the outer catch ran in this step
EscapeStep == pc = "streaming" /\ pc' \in {"caughtAbort", "caughtError"}

Caught == pc \in {"caughtAbort", "caughtError"}

C24_Step ==
  /\ EscapeStep =>
       /\ Len(log') > Len(log)
       /\ log'[Len(log) + 1].name = (IF aborted THEN "abort" ELSE "error")
       /\ pc' = (IF aborted THEN "caughtAbort" ELSE "caughtError")
       /\ \A j \in (Len(log) + 2)..Len(log') :
            log'[j].name = "abort" /\ abortCalls' > abortCalls
       /\ isComplete' = isComplete /\ finalValue' = finalValue /\ assigns' = assigns
  /\ Caught =>
       /\ pc' = pc /\ seen' = seen
       /\ isComplete' = isComplete /\ finalValue' = finalValue /\ assigns' = assigns
       /\ \A j \in (Len(log) + 1)..Len(log') :
            log'[j].name = "abort" /\ abortCalls' > abortCalls

\* C24: when an exception escapes the consumption loop the runner emits one
\* event for it, `abort` if the token is signalled at that moment and `error`
\* otherwise; nothing is finalized, no `end` follows and no further frame is
\* pulled (the only later events are the `abort` of later abort() calls).
C24_EscapeEmitsAbortOrError == [][C24_Step]_vars

\* a read failed after a frame on a runner that had been aborted
C24_Witness ==
  /\ pc = "caughtAbort" /\ seen # <<>> /\ ~isComplete
  /\ log[Len(log)].name = "abort" /\ CountEvents("abort") = 2
  /\ CountEvents("error") = 0 /\ CountEvents("end") = 0


-----------------------------------------------------------------------------
(* Pull-based iteration *)

\* the payloads of the `chunk` events among the first n emissions of the runner
ChunkPayloads(n) ==
  LET sel == SelectSeq(SubSeq(log, 1, n), LAMBDA e : e.name = "chunk")
  IN [i \in 1..Len(sel) |-> sel[i].data]

\* the runner emitted `error` or `abort` after emission number n
FailedSince(n) == \E j \in (n + 1)..Len(log) : log[j].name \in {"error", "abort"}

\* the failure a puller is owed: that of the latest `error` or `abort`
LatestFailure ==
  LET j == CHOOSE k \in LogIndex :
             /\ log[k].name \in {"error", "abort"}
             /\ \A l \in (k + 1)..Len(log) : log[l].name \notin {"error", "abort"}
  IN IF log[j].name = "error" THEN log[j].data ELSE APIUserAbortError

C25_InOrder ==
  (iterBorn = 0 /\ ~FailedSince(0)) =>
    \A k \in 1..Len(results) :
      /\ results[k].kind # "throw"
      /\ results[k].kind = "value" =>
           /\ k <= Len(ChunkPayloads(Len(log)))
           /\ results[k].value = ChunkPayloads(Len(log))[k]
      /\ results[k].kind = "done" =>
           /\ CountEvents("end") = 1
           /\ \A j \in 1..Len(ChunkPayloads(Len(log))) :
                j < k /\ results[j].kind = "value"

C25_Step ==
  (iterBorn = 0 /\ ~FailedSince(0) /\ results' # results) =>
    LET new == results'[Len(results')]
    IN /\ new.kind = "done" <=>
            (CountEvents("end") = 1 /\ chunkIndex = Len(ChunkPayloads(Len(log))))
       /\ new.kind = "value" => chunkIndex' = chunkIndex + 1

\* C25: an iterator requested before the first frame, on a runner that emitted
\* neither `error` nor `abort`, hands out the payloads of the `chunk` events in
\* emission order, each once, whenever they were emitted relative to the
\* next() calls, and reports done only after `end` and after every chunk.
C25_IterationLosesNothing == []C25_InOrder /\ [][C25_Step]_vars

\* three chunks, two of them waiting when the first next() settled, then done
C25_Witness ==
  /\ iterBorn = 0 /\ ~FailedSince(0) /\ pc = "ended"
  /\ Len(results) = 4 /\ results[4].kind = "done"
  /\ results[1].backlog >= 2
  /\ \A k \in 1..3 : results[k].kind = "value"

C26_Step ==
  (results' # results) =>
    LET new == results'[Len(results')]
    IN IF FailedSince(iterBorn)
         THEN new.kind = "throw" /\ new.value = LatestFailure
         ELSE new.kind # "throw"

\* C26: once the runner has emitted `error` or `abort` under an iterator, every
\* next() call that settles afterwards throws the failure (the emitted error,
\* APIUserAbortError for an abort), also while buffered chunks are waiting;
\* without such an event next() does not throw.
C26_NextThrowsAfterFailure == [][C26_Step]_vars

\* next() threw the abort error while a buffered chunk was waiting
C26_Witness ==
  \E k \in 1..Len(results) :
    /\ results[k].kind = "throw" /\ results[k].value = APIUserAbortError
    /\ results[k].backlog >= 1


-----------------------------------------------------------------------------
(* EventEmitter *)

Trace == emitter.trace

\* the positions of the trace at which an emit() call begins
Emissions == { i \in 1..Len(Trace) : Trace[i].kind = "emit" }

Returned(i) ==
  \E j \in (i + 1)..Len(Trace) : Trace[j].kind = "return" /\ Trace[j].em = Trace[i].em

ReturnOf(i) ==
  CHOOSE j \in (i + 1)..Len(Trace) : Trace[j].kind = "return" /\ Trace[j].em = Trace[i].em

\* what happened between the beginning of emission i and its return
Window(i) == (i + 1)..(ReturnOf(i) - 1)

\* the entries emission i invoked, in the order of their invocation
Invoked(i) ==
  LET sel == SelectSeq(SubSeq(Trace, i + 1, ReturnOf(i) - 1),
                       LAMBDA t : t.kind = "call" /\ t.em = Trace[i].em)
  IN [k \in 1..Len(sel) |-> sel[k].x]

\* during emission i its handlers did nothing but run
Quiet(i) == \A j \in Window(i) : Trace[j].kind = "call" /\ Trace[j].em = Trace[i].em

\* during emission i its handlers did nothing but run or throw
QuietButThrowing(i) ==
  /\ \A j \in Window(i) :
       \/ Trace[j].kind = "throw"
       \/ Trace[j].kind \in {"call", "caught"} /\ Trace[j].em = Trace[i].em
  /\ \E j \in Window(i) : Trace[j].kind = "throw"

\* entry x was the target of a removal during emission i: off(event, x),
\* removeAllListeners, or the self-removal of a once wrapper
RemovalTarget(i, x) ==
  \/ x.w # 0
  \/ \E j \in Window(i) :
       \/ Trace[j].kind = "off" /\ Trace[j].ev = Trace[i].ev /\ Trace[j].x = x
       \/ Trace[j].kind = "removeAll" /\ Trace[j].ev \in {Trace[i].ev, AllEvents}

Occurrences(seq, x) == Cardinality({ k \in 1..Len(seq) : seq[k] = x })

InSnapshot(i, x) == \E k \in 1..Len(Trace[i].snap) : Trace[i].snap[k] = x

\* the handlers registered when emission i began that nothing removed during it
Unaffected(i) ==
  SelectSeq(Trace[i].snap, LAMBDA x : ~RemovalTarget(i, x))

\* C27: emit(event) returns after having invoked the handlers registered for
\* the event when it was called, each once and in registration order (all of
\* them and no other handler when the handlers neither change registrations
\* nor emit nor throw; otherwise at least those that nothing removed), and it
\* returns true iff at least one handler was registered for the event.
C27_EmitInvokesRegisteredInOrder ==
  \A i \in Emissions :
    /\ Returned(i)
    /\ Trace[ReturnOf(i)].ret = (Trace[i].snap # <<>>)
    /\ Quiet(i) => Invoked(i) = Trace[i].snap
    /\ SelectSeq(Invoked(i), LAMBDA x : InSnapshot(i, x) /\ ~RemovalTarget(i, x))
         = Unaffected(i)

\* function 3 was registered before function 1 and both for "e": invoked in that order
C27_Witness ==
  \E i \in Emissions :
    /\ Quiet(i) /\ Trace[i].ev = "e"
    /\ Trace[i].snap = <<Plain(3), Plain(1)>>
    /\ Invoked(i) = Trace[i].snap
    /\ Trace[ReturnOf(i)].ret

\* C28: when a handler throws, emit still invokes every remaining handler, the
\* exception does not reach the caller of emit, and emit returns true.
C28_HandlerExceptionsIsolated ==
  /\ ~emitter.raised
  /\ \A i \in Emissions :
       /\ Returned(i)
       /\ QuietButThrowing(i) =>
            /\ Invoked(i) = Trace[i].snap
            /\ Trace[ReturnOf(i)].ret

\* function 2 threw and function 3, registered after it, was still invoked
C28_Witness ==
  \E i \in Emissions :
    /\ QuietButThrowing(i)
    /\ Trace[i].snap = <<Plain(2), Plain(3)>>
    /\ Invoked(i) = Trace[i].snap
    /\ Trace[ReturnOf(i)].ret

\* C29: an emission invokes exactly once every handler that was registered
\* when emit was called and is not the target of a removal made during the
\* emission, and it invokes no handler that was registered during it.
C29_StableSnapshot ==
  \A i \in Emissions :
    /\ \A k \in 1..Len(Trace[i].snap) :
         ~RemovalTarget(i, Trace[i].snap[k]) =>
           Occurrences(Invoked(i), Trace[i].snap[k]) = 1
    /\ \A k \in 1..Len(Invoked(i)) : InSnapshot(i, Invoked(i)[k])

\* the once wrappers that were invoked
FiredWrappers == { Trace[j].x : j \in { k \in 1..Len(Trace) :
                                           Trace[k].kind = "call" /\ Trace[k].x.w # 0 } }

\* C30: a handler registered with once() is invoked at most once, and after
\* its invocation it is not registered any more.
C30_OnceAtMostOnce ==
  \A x \in FiredWrappers :
    /\ Cardinality({ j \in 1..Len(Trace) : Trace[j].kind = "call" /\ Trace[j].x = x }) = 1
    /\ \A ev \in EmitterEvents :
         ListenerCount(emitter, ev)
           = Len(SelectSeq(HandlersOf(emitter, ev), LAMBDA y : y # x))


-----------------------------------------------------------------------------
(* Independence of runners *)

\* what a runner alone does on a sequence of frames, abort() calls and end of stream
RECURSIVE Alone(_)
Alone(ops) ==
  IF ops = <<>> THEN NewRunner
  ELSE LET r == Alone(SubSeq(ops, 1, Len(ops) - 1))
           op == ops[Len(ops)]
       IN CASE op.kind = "abort" -> AbortMethod(r)
            [] op.kind = "end" -> Exhausted(r)
            [] OTHER -> LoopBody([r EXCEPT !.seen = Append(@, op.data)], op.data)

C31_Step ==
  /\ peer' # peer => UNCHANGED runnerVars
  /\ abortCalls' # abortCalls =>
       /\ peer'.r.aborted = peer.r.aborted
       /\ peer'.r.isComplete = peer.r.isComplete
       /\ peer'.r.contentSnapshot = peer.r.contentSnapshot
       /\ peer'.r.log = peer.r.log

-----------------------------------------------------------------------------
(* withRetry *)

\* the errors the statement calls retryable
RetryableByContract(e) ==
  \/ e.cls = "APIError" /\ e.status \in {429, 500, 502, 503, 504}
  \/ e.cls = "Error" /\ e.name \in {"AbortError", "TypeError"}
  \/ e.cls = "Error" /\ e.message = "network down"

Calls == Len(retry.outcomes)

C32_Safe ==
  /\ Calls <= (IF retry.maxRetries >= 0 THEN retry.maxRetries + 1 ELSE 0)
  /\ \A k \in 1..(Calls - 1) :
       retry.outcomes[k] # Ok /\ RetryableByContract(retry.outcomes[k])
  /\ retry.st = "returned" => (retry.outcomes[Calls] = Ok /\ retry.value = Ok)
  /\ (retry.st = "threw" /\ Calls > 0) =>
       /\ retry.value = retry.outcomes[Calls] /\ retry.value # Ok
       /\ ~RetryableByContract(retry.value) \/ Calls = retry.maxRetries + 1
  /\ retry.st \in {"running", "waiting"} =>
       /\ Calls < retry.maxRetries + 1 \/ retry.maxRetries < 0
       /\ Calls > 0 => RetryableByContract(retry.outcomes[Calls])

\* C32: withRetry calls fn at most maxRetries + 1 times (3 + 1 by default),
\* returns the first success, goes on only after a retryable error, rethrows
\* the first non-retryable error and the error of the last allowed attempt, and
\* always ends by returning or throwing.
C32_RetryBoundedAndTerminates ==
  []C32_Safe /\ <>(retry.st \in {"returned", "threw"})

\* by default four calls failed with retryable errors and the last error was rethrown
C32_Witness ==
  /\ retry.maxRetries = DefaultMaxRetries /\ Calls = DefaultMaxRetries + 1
  /\ retry.st = "threw" /\ retry.value = APIErrorWith(503)
  /\ retry.outcomes[1] = ErrorWith("TypeError", "fetch failed")

------------------------------------------------------------------------------------------------------------------------------------------------------
(* A runner whose handlers throw, next to the same runner whose handlers return *)

\* the events at which the application's handler may throw
Throwers == {"none"} \cup EventNames

\* the step left the second runner with no handler about to throw
Settled(r) == [r EXCEPT !.throws = "none"]

TwinFrame ==
  /\ hasBody /\ pc = "streaming" /\ Len(seen) < MaxFrames
  /\ \E data \in (IF variant = "chat" THEN ChatFrames ELSE CompletionFrames),
        th \in Throwers :
       /\ Commit(LoopBody([Self EXCEPT !.seen = Append(@, data)], data))
       /\ peer' = [peer EXCEPT !.r =
            Settled(LoopBody([@ EXCEPT !.seen = Append(@, data), !.throws = th],
                             data))]
  /\ UNCHANGED <<text, buffer, frames, fed, processorVars, iteratorVars, emitter,
                 retry, request>>

TwinEndOfSequence ==
  /\ hasBody /\ pc = "streaming"
  /\ \E th \in Throwers :
       /\ Commit(Exhausted(Self))
       /\ peer' = [peer EXCEPT !.r = Settled(Exhausted([@ EXCEPT !.throws = th]))]
  /\ UNCHANGED <<text, buffer, frames, fed, processorVars, iteratorVars, emitter,
                 retry, request>>

TwinReadFails ==
  /\ hasBody /\ pc = "streaming"
  /\ \E th \in Throwers :
       /\ Commit(OuterCatch(Self, "ReadError"))
       /\ peer' = [peer EXCEPT !.r =
            Settled(OuterCatch([@ EXCEPT !.throws = th], "ReadError"))]
  /\ UNCHANGED <<text, buffer, frames, fed, processorVars, iteratorVars, emitter,
                 retry, request>>

TwinAbort ==
  /\ abortCalls < MaxAborts
  /\ \E th \in Throwers :
       /\ Commit(AbortMethod(Self))
       /\ peer' = [peer EXCEPT !.r = Settled(AbortMethod([@ EXCEPT !.throws = th]))]
  /\ UNCHANGED <<text, buffer, frames, fed, processorVars, iteratorVars, emitter,
                 retry, request>>

TwinCallDone ==
  /\ Len(calls) < MaxCalls
  /\ Commit(DoneMethod(Self, "done", RunnerState))
  /\ peer' = [peer EXCEPT !.r = DoneMethod(@, "done", RunnerState)]
  /\ UNCHANGED <<text, buffer, frames, fed, processorVars, iteratorVars, emitter,
                 retry, request>>

InitTwin ==
  /\ variant \in {"chat", "completion"}
  /\ hasBody = TRUE
  /\ pc = "streaming"
  /\ seen = <<>> /\ aborted = FALSE /\ contentSnapshot = "" /\ isComplete = FALSE
  /\ finalValue = NULL /\ toolCallsSnapshot = <<>>
  /\ finalToolCalls = NoFinalToolCalls
  /\ events = [n \in EventNames |-> <<UserHandler(n)>>]
  /\ log = <<>> /\ calls = <<>> /\ abortCalls = 0 /\ assigns = 0
  /\ text = <<>> /\ buffer = <<>> /\ frames = <<>> /\ fed = <<>>
  /\ ProcessorIdle /\ IteratorIdle /\ EmitterIdle
  /\ retry = NULL /\ request = NULL
  /\ peer = [r |-> [NewRunner EXCEPT !.variant = variant], ops |-> <<>>]

NextTwin ==
  \/ TwinFrame
  \/ TwinEndOfSequence
  \/ TwinReadFails
  \/ TwinAbort
  \/ TwinCallDone

SpecTwin == InitTwin /\ [][NextTwin]_vars

------------------------------------------------------------------------------
(* NeuroApi._makeRequestWithResponse: one non-streaming request *)

ClientTimeout == 2   \* this.timeout of the client, in ticks
MaxTicks == 3        \* ticks one request is followed for

\* options.timeout, 0 when the caller gives none
OptionTimeouts == {0, 1}

\* the request just after `await fetch(...)` was reached: the timer is armed,
\* the caller's signal, when one was passed, may have been aborted already
NewRequest(callerSignal, optionTimeout, callerAborted) ==
  [signal |-> callerSignal,
   timeout |-> IF optionTimeout # 0 THEN optionTimeout ELSE ClientTimeout,
   elapsed |-> 0, timer |-> "armed", controllerAborted |-> FALSE,
   callerAborted |-> callerAborted, st |-> "fetching", status |-> 0,
   value |-> "none"]

\* const signal = options.signal || controller.signal: what fetch listens to
FetchSignalAborted(q) ==
  IF q.signal THEN q.callerAborted ELSE q.controllerAborted

\* clearTimeout(timeoutId): nothing to clear once the timer has fired
ClearTimeout(q) == [q EXCEPT !.timer = IF @ = "armed" THEN "cleared" ELSE @]

\* the catch of _makeRequestWithResponse
RequestCatch(q, err) ==
  LET q1 == ClearTimeout(q)
      thrown ==
        CASE err = "APIError" -> "APIError"
          [] err = "AbortError" ->
               IF q.signal /\ q.callerAborted THEN "APIUserAbortError"
               ELSE "APITimeoutError"
          [] err = "fetch failed" -> "APIConnectionError"
          [] OTHER -> err
  IN [q1 EXCEPT !.st = "threw", !.value = thrown]

\* time passes; a timer that is due fires before more time passes
Tick ==
  /\ request.st \in {"fetching", "body"}
  /\ request.elapsed < MaxTicks
  /\ ~(request.timer = "armed" /\ request.elapsed >= request.timeout)
  /\ request' = [request EXCEPT !.elapsed = @ + 1]
  /\ UNCHANGED <<text, buffer, frames, fed, processorVars, iteratorVars, emitter,
                 peer, retry>>
  /\ UNCHANGED runnerVars

\* setTimeout(() => controller.abort(), timeout) fires
TimerFires ==
  /\ request.timer = "armed"
  /\ request.elapsed >= request.timeout
  /\ request' = [request EXCEPT !.timer = "fired", !.controllerAborted = TRUE]
  /\ UNCHANGED <<text, buffer, frames, fed, processorVars, iteratorVars, emitter,
                 peer, retry>>
  /\ UNCHANGED runnerVars

\* the caller aborts the controller whose signal it passed in options.signal
CallerAborts ==
  /\ request.signal /\ ~request.callerAborted
  /\ request.st \in {"fetching", "body"}
  /\ request' = [request EXCEPT !.callerAborted = TRUE]
  /\ UNCHANGED <<text, buffer, frames, fed, processorVars, iteratorVars, emitter,
                 peer, retry>>
  /\ UNCHANGED runnerVars

\* fetch resolves with the response headers; clearTimeout follows at once
FetchResolves ==
  /\ request.st = "fetching"
  /\ ~FetchSignalAborted(request)
  /\ \E status \in {200, 404, 500} :
       request' = [ClearTimeout(request) EXCEPT !.st = "body", !.status = status]
  /\ UNCHANGED <<text, buffer, frames, fed, processorVars, iteratorVars, emitter,
                 peer, retry>>
  /\ UNCHANGED runnerVars

\* fetch rejects: with an AbortError once its signal is aborted, else with a
\* network failure or some other error
FetchRejects ==
  /\ request.st = "fetching"
  /\ \E err \in (IF FetchSignalAborted(request) THEN {"AbortError"}
                  ELSE {"fetch failed", "TypeError"}) :
       request' = RequestCatch(request, err)
  /\ UNCHANGED <<text, buffer, frames, fed, processorVars, iteratorVars, emitter,
                 peer, retry>>
  /\ UNCHANGED runnerVars

\* the body has been read: data is returned, an APIError is thrown for a
\* response that is not ok, a body that cannot be read throws
BodyRead ==
  /\ request.st = "body"
  /\ \/ /\ FetchSignalAborted(request)
        /\ request' = RequestCatch(request, "AbortError")
     \/ /\ ~FetchSignalAborted(request)
        /\ request.status # 200
        /\ request' = RequestCatch(request, "APIError")
     \/ /\ ~FetchSignalAborted(request)
        /\ request.status = 200
        /\ \/ request' = [request EXCEPT !.st = "returned", !.value = "data"]
           \/ request' = RequestCatch(request, "SyntaxError")
  /\ UNCHANGED <<text, buffer, frames, fed, processorVars, iteratorVars, emitter,
                 peer, retry>>
  /\ UNCHANGED runnerVars

InitRequest ==
  /\ request \in { NewRequest(sig, t, ab) :
                     sig \in BOOLEAN, t \in OptionTimeouts, ab \in BOOLEAN }
  /\ request.callerAborted => request.signal
  /\ peer = NULL /\ retry = NULL
  /\ text = <<>> /\ buffer = <<>> /\ frames = <<>> /\ fed = <<>>
  /\ ProcessorIdle /\ IteratorIdle /\ EmitterIdle
  /\ hasBody = TRUE
  /\ RunnerIdle

NextRequest ==
  \/ Tick
  \/ TimerFires
  \/ CallerAborts
  \/ FetchResolves
  \/ FetchRejects
  \/ BodyRead

SpecRequest == InitRequest /\ [][NextRequest]_vars

------
(* SSEParser: the retained buffer and the frames *)

\* the text that follows the last newline of s, all of s when it has none
RECURSIVE AfterLastNewline(_)
AfterLastNewline(s) ==
  IF s = <<>> THEN <<>>
  ELSE IF s[Len(s)] = NL THEN <<>>
  ELSE Append(AfterLastNewline(SubSeq(s, 1, Len(s) - 1)), s[Len(s)])

\* the chunk a step hands to parse(), empty when the step is not a parse() call
ChunkParsed == SubSeq(text, 1, Len(text) - Len(text'))

C33_Step ==
  /\ text' # text =>
       /\ buffer' = AfterLastNewline(buffer \o ChunkParsed)
       /\ ChunkParsed[Len(ChunkParsed)] = NL => buffer' = <<>>
  /\ (text' = text /\ fed' # fed) => buffer' = <<>>

\* C33: after every parse(chunk) the retained buffer is the text after the last
\* newline of the previous buffer followed by the chunk: it holds no newline and
\* is empty when the chunk ended on a newline; after reset() it is empty.
C33_BufferIsUnfinishedLine ==
  /\ [](\A k \in 1..Len(buffer) : buffer[k] # NL)
  /\ [](buffer = AfterLastNewline(fed))
  /\ [][C33_Step]_vars

\* two parse calls so far: one that ended inside a line, one that completed a
\* frame and again ended inside a line
C33_Witness ==
  /\ Len(frames) = 1 /\ buffer = <<"i", "d">>
  /\ Len(fed) > Len(buffer) + 2 /\ text # <<>>

\* the complete lines of s, without their newlines
CompleteLines(s) ==
  LET lines == SplitLines(s, <<>>) IN SubSeq(lines, 1, Len(lines) - 1)

\* the blocks of a list of lines: the lines before each blank line, since the
\* blank line before
RECURSIVE BlocksOf(_, _, _)
BlocksOf(lines, cur, out) ==
  IF lines = <<>> THEN out
  ELSE IF Head(lines) = <<>> THEN BlocksOf(Tail(lines), <<>>, Append(out, cur))
  ELSE BlocksOf(Tail(lines), Append(cur, Head(lines)), out)

\* the values block gives to the field called name
FieldValues(block, name) ==
  { Trim(SubSeq(block[k], Len(name) + 2, Len(block[k]))) :
      k \in { j \in 1..Len(block) :
                /\ Len(block[j]) > Len(name)
                /\ SubSeq(block[j], 1, Len(name) + 1) = name \o <<":">> } }

\* frame f can have been emitted at the blank line that ends block
FrameOfBlock(f, block) ==
  /\ f.data # Undefined /\ f.data \in FieldValues(block, <<"d", "a", "t", "a">>)
  /\ f.event # Undefined => f.event \in FieldValues(block, <<"e", "v", "e", "n", "t">>)
  /\ f.id # Undefined => f.id \in FieldValues(block, <<"i", "d">>)
  /\ f.retry # NoRetry => FieldValues(block, <<"r", "e", "t", "r", "y">>) # {}

\* every frame of fs was emitted at the blank line of a block of its own, in order
RECURSIVE FramesFromBlocks(_, _)
FramesFromBlocks(fs, blocks) ==
  IF fs = <<>> THEN TRUE
  ELSE IF blocks = <<>> THEN FALSE
  ELSE \/ FrameOfBlock(Head(fs), Head(blocks)) /\ FramesFromBlocks(Tail(fs), Tail(blocks))
       \/ FramesFromBlocks(fs, Tail(blocks))

\* C34: every frame the parser has emitted has a defined data and was emitted at
\* the blank line of a block of its own that holds a data line; its event, id
\* and retry are values of that block, never of an earlier one; a block without
\* data gives no frame.
C34_FramesOnlyAtBlankLinesWithData ==
  /\ \A k \in 1..Len(frames) : frames[k].data # Undefined
  /\ FramesFromBlocks(frames, BlocksOf(CompleteLines(fed), <<>>, <<>>))

\* a block with an id and no data was followed by a block with data alone: one
\* frame, and it has no id
C34_Witness ==
  /\ text = <<>> /\ Len(frames) = 1 /\ frames[1].id = Undefined
  /\ fed = Chars("id:1") \o <<NL, NL>> \o Chars("data:x") \o <<NL, NL>>

------------------------------------------------------------------------------
(* handleToolCallsDelta: the fold and the snapshot of a delta event *)

ToolDelta == "tool_calls.function.arguments.delta"

\* the tool-call deltas of the frames fs, in the order of delivery
RECURSIVE DeltasDelivered(_)
DeltasDelivered(fs) ==
  IF fs = <<>> THEN <<>>
  ELSE ToolDeltasOf(Head(fs)) \o DeltasDelivered(Tail(fs))

\* the last value of vals that is neither absent nor empty, "" when there is none
RECURSIVE LastNonEmpty(_)
LastNonEmpty(vals) ==
  IF vals = <<>> THEN ""
  ELSE LET v == vals[Len(vals)]
       IN IF v # NULL /\ v # "" THEN v
          ELSE LastNonEmpty(SubSeq(vals, 1, Len(vals) - 1))

DeltasAt(i) == SelectSeq(DeltasDelivered(seen), LAMBDA d : d.index = i)

\* C35: every snapshot's id and function.name are the last non-empty values
\* delivered at its index, its arguments the concatenation of the fragments
\* delivered there in order, its type "function"; a delta without index makes
\* no snapshot and no delta event.
C35_ToolCallFoldRule ==
  /\ DOMAIN toolCallsSnapshot = PopulatedIndices(seen)
  /\ \A i \in DOMAIN toolCallsSnapshot :
       LET ds == DeltasAt(i)
       IN /\ toolCallsSnapshot[i].id = LastNonEmpty([k \in 1..Len(ds) |-> ds[k].id])
          /\ toolCallsSnapshot[i].function.name =
               LastNonEmpty([k \in 1..Len(ds) |-> ds[k].function.name])
          /\ toolCallsSnapshot[i].function.arguments = ArgumentsDelivered(seen, i)
          /\ toolCallsSnapshot[i].type = "function"
  /\ LET sel == SelectSeq(log, LAMBDA e : e.name = ToolDelta)
     IN [k \in 1..Len(sel) |-> sel[k].data.toolCall] =
          SelectSeq(DeltasDelivered(seen), LAMBDA d : d.index # NoIndex)

\* index 0 got an id and a name, then a new id with an empty name, then a
\* fragment alone; index 2 came together with a delta without index
C35_Witness ==
  /\ Len(seen) = 4
  /\ ToolDeltasOf(seen[1]) = <<ToolCallDelta(0, "call_0", "f", "a")>>
  /\ ToolDeltasOf(seen[2]) = <<ToolCallDelta(0, "call_9", "", "")>>
  /\ ToolDeltasOf(seen[3]) = <<ToolCallDelta(0, NULL, NULL, "b")>>
  /\ Len(ToolDeltasOf(seen[4])) = 2
  /\ toolCallsSnapshot[0] =
       [id |-> "call_9", type |-> "function",
        function |-> [name |-> "f", arguments |-> "ab"]]
  /\ DOMAIN toolCallsSnapshot = {0, 2}

\* C36: the snapshot object delivered with a delta event keeps the id, name and
\* arguments it had when the event was emitted, whatever is delivered later at
\* its index.
C36_DeliveredSnapshotFrozen ==
  \A j \in LogIndex :
    log[j].name = ToolDelta =>
      SpreadCopy(log[j].data.snapshot, log[j].data.index, toolCallsSnapshot)
        = log[j].data.snapshot

\* the part of C36 that the copy does give: the id of a delivered snapshot object
\* stays, while the snapshot's own id moves on
C36_DeliveredIdFrozen ==
  \A j \in LogIndex :
    log[j].name = ToolDelta =>
      SpreadCopy(log[j].data.snapshot, log[j].data.index, toolCallsSnapshot).id
        = log[j].data.snapshot.id

------------------------------------------------------------------------------
(* The terminal events of one runner *)

\* C37: with abort() called at most once, a runner emits at most one terminal
\* event among `end` and `abort` in total.
C37_AtMostOneTerminalEvent ==
  abortCalls <= 1 => CountEvents("end") + CountEvents("abort") <= 1

\* the half of C37 about abort() during streaming: `abort` is emitted once
C37_AbortEmittedOnce ==
  abortCalls <= 1 => CountEvents("abort") <= 1

\* the half of C37 about `end` and `abort` together
C37_NeverEndAndAbort ==
  abortCalls <= 1 => CountEvents("end") = 0 \/ CountEvents("abort") = 0

------------------------------------------------------------------------------
(* The polling loop of the iterator's next() *)

\* while (chunkIndex >= chunks.length && !isComplete) is over
PollingOver == chunkIndex < Len(IterChunks) \/ IterComplete

\* C38: once the stream has terminated, the polling loop of every next() call
\* on an iterator of the runner is over, so the call settles; also on an
\* iterator requested after the terminal event.
C38_NextSettlesOnceTerminated ==
  (pc # "streaming" /\ iterBorn # NoIndex) => PollingOver

\* the part of C38 that holds: on an iterator requested while the stream was
\* running, next() settles once the stream has terminated
C38_EarlyIteratorSettles ==
  (pc # "streaming" /\ iterBorn # NoIndex
     /\ \A j \in 1..iterBorn : log[j].name \notin {"end", "error", "abort"})
    => PollingOver

------------------------------------------------------------------------------
(* Exceptions thrown by subscribed handlers *)

\* C39: a runner whose handlers throw has, after every step, the snapshots,
\* final values, state, registered handlers, pending calls and emitted events of
\* the same runner whose handlers return normally; in particular no `error`
\* event is emitted because of a handler's exception.
C39_HandlerExceptionsChangeNothing ==
  [peer.r EXCEPT !.caught = 0] = Self

\* handlers threw at least twice, a done() call was settled by the terminal
\* event all the same
C39_Witness ==
  /\ peer.r.caught >= 2
  /\ CountEvents("chunk") >= 1
  /\ \E i \in 1..Len(calls) : calls[i].st # "pending" /\ calls[i].born = "streaming"

------------------------------------------------------------------------------
(* Timeout and abort of a non-streaming request *)

RequestSettled == request.st \in {"returned", "threw"}

\* C40: when the timer of a request fires, the request is aborted and, unless
\* the caller aborted it, it can only fail with APITimeoutError, also when the
\* caller passed a signal of its own; a request ended by the abort of the
\* caller's signal fails with APIUserAbortError; the timer is no longer armed
\* once the request has returned or thrown.
C40_TimeoutAndAbort ==
  /\ request.timer = "fired" => FetchSignalAborted(request) \/ RequestSettled
  /\ (request.timer = "fired" /\ RequestSettled /\ ~request.callerAborted) =>
       (request.st = "threw" /\ request.value = "APITimeoutError")
  /\ (RequestSettled /\ request.callerAborted /\ request.timer # "fired") =>
       (request.st = "threw" /\ request.value = "APIUserAbortError")
  /\ RequestSettled => request.timer # "armed"

\* the part of C40 that holds: the timeout of a request that was given no
\* signal by the caller, the caller's abort, and the clearing of the timer
C40_WithoutCallerSignalTimeout ==
  /\ (~request.signal /\ request.timer = "fired") =>
       FetchSignalAborted(request) \/ RequestSettled
  /\ (~request.signal /\ request.timer = "fired" /\ RequestSettled) =>
       (request.st = "threw" /\ request.value = "APITimeoutError")
  /\ (RequestSettled /\ request.callerAborted /\ request.timer # "fired") =>
       (request.st = "threw" /\ request.value = "APIUserAbortError")
  /\ RequestSettled => request.timer # "armed"

====
